---- MODULE Spec2Model ----
(***************************************************************************)
(* Turn engine of the vessel game (hooks/useGameState): cargo transactions, *)
(* sailing, the end-of-turn pipeline, the undo history and the three        *)
(* one-shot items, over the fixed world of config/gameConfig.ts.            *)
(*                                                                          *)
(* Quantities of stock are kept in HALF UNITS: the source holds them as     *)
(* floating point numbers that are always multiples of 0.5 (every           *)
(* supplyPerTurn entry is 0, 0.5 or 1), so a stock of 1.5 is 3 here,        *)
(* Math.floor(x) is h \div 2 and "x -= quantity" is h - 2 * quantity.       *)
(* Ship cargo, city inventories, demand and score are whole units.          *)
(*                                                                          *)
(* The log (GameState.logs) is only ever extended at its end or replaced    *)
(* by a snapshot's log, so it is kept as its length.                        *)
(***************************************************************************)
EXTENDS Integers, Sequences, FiniteSets, TLC

VARIABLES gameState, stateHistory, lastOp, currentShip, start, routes, reached,
          heap, pushed, result, attempt, successfulSwaps, pc,
          clock, lastLoadTimeRef, lastCall

\* the variables of the object store, used by SpecHeap only
heapVars == <<heap, pushed>>

\* the variables of generateRandomSupplyPerTurn, used by SpecRandom only
rndVars == <<result, attempt, successfulSwaps, pc>>

\* the variables of the load cooldown, used by SpecCooldown only
clockVars == <<clock, lastLoadTimeRef, lastCall>>

sideVars == <<rndVars, clockVars>>

\* their values where they are not used
SideIdle ==
    /\ result = <<>>
    /\ attempt = 0
    /\ successfulSwaps = 0
    /\ pc = "idle"
    /\ clock = 0
    /\ lastLoadTimeRef = 0
    /\ lastCall = <<>>

vars == <<gameState, stateHistory, lastOp, currentShip, start, routes, reached,
          heapVars, sideVars>>

(***************************************************************************)
(* Bounds of the exploration.                                               *)
(***************************************************************************)
\* ports a command may name (sail / teleport destination, boost target):
\* the first MaxInputPorts entries of INPUT_PORT_ORDER
MaxInputPorts == 2
\* loadCargo is called with one unit (the map's buttons) or with MaxQty units
\* (a bulk load of the ship control panel)
MaxQty == 10
\* nextTurn is not issued once it has pushed MaxHistory snapshots that are
\* still on the history
MaxHistory == 1
\* a command that writes a log entry is not issued once MaxLogs entries have
\* been written since the start (undoTurn: once the snapshot's log is that
\* long); unloadCargo needs no limit, it consumes cargo that only a load
\* brings aboard
MaxLogs == 4
\* SpecLate starts after the player has ended IdleTurns turns without
\* issuing any other command
IdleTurns == 10
\* the limits of the swap loop of generateRandomSupplyPerTurn: attempts made
\* at most, and swaps after which it stops
maxAttempts == 3
targetSwaps == 2
\* SpecCooldown: the clock reads StartClock at the first call, moves in
\* steps of TickMs and is followed up to MaxClock
StartClock == 100
TickMs == 50
MaxClock == 300

(***************************************************************************)
(* Fixed world data (config/gameConfig.ts).                                 *)
(***************************************************************************)
COLORS == <<"red", "blue", "yellow", "green">>

ColorSet == {COLORS[i] : i \in 1..Len(COLORS)}

Undefined == "undefined"

UndefinedTurns == -1

H(r, b, y, g) == [red |-> r, blue |-> b, yellow |-> y, green |-> g]

DemandPort(color) ==
    [type |-> "demand", cargoStock |-> H(0, 0, 0, 0), demandColor |-> color,
     supplyPerTurn |-> H(0, 0, 0, 0)]

\* stock and production in half units
SupplyPort(stock, perTurn) ==
    [type |-> "supply", cargoStock |-> stock, demandColor |-> Undefined,
     supplyPerTurn |-> perTurn]

\* Object.keys(INITIAL_PORTS), in insertion order
PORT_KEYS ==
    <<"TKO", "SAP", "MYZ", "KYT", "OKN", "RUS", "KOR", "TAW", "VNM", "PHL", "HKG",
      "GUM", "PLW", "IDN", "PNG", "OGS", "MTR", "SGP", "SKH", "AUS", "BGD">>

PortIds == {PORT_KEYS[i] : i \in 1..Len(PORT_KEYS)}

INITIAL_PORTS ==
    [p \in PortIds |->
       CASE p = "TKO" -> DemandPort("red")
         [] p = "SAP" -> DemandPort("blue")
         [] p = "MYZ" -> DemandPort("yellow")
         [] p = "KYT" -> DemandPort("green")
         [] p = "OKN" -> SupplyPort(H(0, 2, 0, 0), H(0, 1, 0, 0))
         [] p = "RUS" -> SupplyPort(H(0, 2, 2, 0), H(0, 1, 1, 0))
         [] p = "KOR" -> SupplyPort(H(2, 2, 0, 0), H(1, 1, 0, 0))
         [] p = "TAW" -> SupplyPort(H(2, 2, 0, 0), H(1, 1, 0, 0))
         [] p = "VNM" -> SupplyPort(H(0, 0, 0, 2), H(0, 0, 0, 1))
         [] p = "PHL" -> SupplyPort(H(2, 0, 0, 2), H(1, 0, 0, 1))
         [] p = "HKG" -> SupplyPort(H(2, 0, 2, 0), H(1, 0, 1, 0))
         [] p = "GUM" -> SupplyPort(H(0, 2, 0, 0), H(0, 1, 0, 0))
         [] p = "PLW" -> SupplyPort(H(0, 2, 2, 0), H(0, 1, 1, 0))
         [] p = "IDN" -> SupplyPort(H(4, 2, 0, 0), H(2, 1, 0, 0))
         [] p = "PNG" -> SupplyPort(H(0, 0, 0, 2), H(0, 0, 0, 1))
         [] p = "OGS" -> SupplyPort(H(2, 0, 0, 0), H(1, 0, 0, 0))
         [] p = "MTR" -> SupplyPort(H(0, 0, 0, 2), H(0, 0, 0, 1))
         [] p = "SGP" -> SupplyPort(H(0, 0, 0, 2), H(0, 0, 0, 1))
         [] p = "SKH" -> SupplyPort(H(2, 0, 4, 0), H(1, 0, 2, 0))
         [] p = "AUS" -> SupplyPort(H(0, 4, 0, 4), H(0, 2, 0, 2))
         [] p = "BGD" -> SupplyPort(H(0, 2, 0, 4), H(0, 1, 0, 2))]

ROUTES ==
    << <<"RUS", "SAP">>, <<"RUS", "KYT">>, <<"KOR", "SAP">>, <<"KOR", "MYZ">>,
       <<"KOR", "KYT">>, <<"TAW", "MYZ">>, <<"TAW", "OKN">>, <<"PHL", "OKN">>,
       <<"TKO", "SAP">>, <<"TKO", "OKN">>, <<"MYZ", "TKO">>, <<"MYZ", "OKN">>,
       <<"SAP", "KYT">>, <<"OGS", "TKO">>, <<"RUS", "KOR">>, <<"KOR", "TAW">>,
       <<"HKG", "TAW">>, <<"HKG", "VNM">>, <<"TAW", "PHL">>, <<"TAW", "VNM">>,
       <<"PHL", "VNM">>, <<"OKN", "OGS">>, <<"OGS", "GUM">>, <<"GUM", "PLW">>,
       <<"GUM", "PHL">>, <<"PLW", "PHL">>, <<"PLW", "PNG">>, <<"IDN", "PNG">>,
       <<"IDN", "PHL">>, <<"MTR", "SAP">>, <<"MTR", "OGS">>, <<"MTR", "GUM">>,
       <<"SGP", "VNM">>, <<"SGP", "IDN">>, <<"SKH", "SAP">>, <<"SKH", "RUS">>,
       <<"AUS", "PNG">>, <<"AUS", "IDN">>, <<"BGD", "VNM">>, <<"BGD", "SGP">> >>

SHIP_IDS == <<"large", "medium", "small">>

ShipIds == {SHIP_IDS[i] : i \in 1..Len(SHIP_IDS)}

\* the fields of a Ship that no operation writes
SHIP_CLASS ==
    [s \in ShipIds |->
       CASE s = "large"  -> [capacity |-> 24, speed |-> 1, maxColors |-> 2]
         [] s = "medium" -> [capacity |-> 18, speed |-> 2, maxColors |-> 2]
         [] s = "small"  -> [capacity |-> 12, speed |-> 3, maxColors |-> 1]]

DockedAt(p) ==
    [status |-> "docked", currentPort |-> p, sailingFrom |-> Undefined,
     sailingTo |-> Undefined, remainingTurns |-> UndefinedTurns,
     totalTurns |-> UndefinedTurns, cargo |-> <<>>]

INITIAL_SHIPS ==
    [s \in ShipIds |->
       CASE s = "large"  -> DockedAt("TKO")
         [] s = "medium" -> DockedAt("SAP")
         [] s = "small"  -> DockedAt("MYZ")]

INITIAL_CITY_INVENTORIES ==
    << [portId |-> "TKO", color |-> "red", stock |-> 20],
       [portId |-> "SAP", color |-> "blue", stock |-> 20],
       [portId |-> "MYZ", color |-> "yellow", stock |-> 20],
       [portId |-> "KYT", color |-> "green", stock |-> 20] >>

\* DEMAND_TABLES.find((t) => t.level === level)?.demand[portId] ?? 0
DEMAND_TABLES(level, portId) ==
    CASE level = 1 /\ portId \in {"TKO", "SAP"} -> 2
      [] level = 1 /\ portId \in {"MYZ", "KYT"} -> 1
      [] level = 2 /\ portId \in {"TKO", "SAP"} -> 3
      [] level = 2 /\ portId \in {"MYZ", "KYT"} -> 2
      [] level = 3 /\ portId \in {"TKO", "SAP"} -> 4
      [] level = 3 /\ portId \in {"MYZ", "KYT"} -> 3
      [] OTHER -> 0

MaxTurns == 30

\* stands for the number Infinity: above every stock a game can reach
Infinity == 1000000

SUPPLY_STOCK_LIMITS(p) ==
    CASE p \in {"TKO", "SAP", "MYZ", "KYT"} -> Infinity
      [] p \in {"RUS", "KOR", "OKN", "OGS", "TAW", "MTR"} -> 6
      [] p \in {"SKH", "HKG", "PHL", "GUM"} -> 8
      [] OTHER -> 10

\* getDemandLevel with two tiers only
getDemandLevel_TwoTiers(turn) ==
    IF turn <= 10 THEN 1 ELSE 2

getDemandLevel(turn) ==
    IF turn <= 10 THEN 1 ELSE IF turn <= 20 THEN 2 ELSE 3

getDemandForPort(portId, level) ==
    IF level <= 3 THEN DEMAND_TABLES(level, portId)
    ELSE DEMAND_TABLES(3, portId) + (level - 3)

getDemandForTurn(turn, portId) == getDemandForPort(portId, getDemandLevel(turn))

ItemIds == {"supplyBoost", "demandFreeze", "teleport"}

INITIAL_ITEMS == [i \in ItemIds |-> [used |-> FALSE]]

createInitialGameState ==
    [turn |-> 1,
     status |-> "playing",
     demandLevel |-> 1,
     ports |-> [p \in PortIds |-> INITIAL_PORTS[p].cargoStock],
     ships |-> INITIAL_SHIPS,
     cityInventories |-> INITIAL_CITY_INVENTORIES,
     logs |-> 1,
     score |-> 0,
     items |-> INITIAL_ITEMS,
     demandFrozenThisTurn |-> FALSE]

(***************************************************************************)
(* World graph.                                                             *)
(***************************************************************************)
\* The two functions of the hook read gameState.routes; they are written
\* here over any route list rts.  No operation writes gameState.routes, so in
\* a game it is ROUTES throughout.
\* A Set is kept as the sequence of its elements in insertion order.
SetAdd(set, x) ==
    IF \E i \in DOMAIN set : set[i] = x THEN set ELSE Append(set, x)

\* array.includes(x)
Includes(array, x) == \E i \in DOMAIN array : array[i] = x

RECURSIVE DirectAdjacent_OneWay(_, _, _)
\* DirectAdjacent ignoring the routes that end at the port
DirectAdjacent_OneWay(rts, portId, i) ==
    IF i > Len(rts) THEN <<>>
    ELSE (IF rts[i][1] = portId THEN <<rts[i][2]>> ELSE <<>>)
           \o DirectAdjacent_OneWay(rts, portId, i + 1)

RECURSIVE DirectAdjacent(_, _, _)
\* getDirectAdjacentPorts: the "for route" loop from route i on
DirectAdjacent(rts, portId, i) ==
    IF i > Len(rts) THEN <<>>
    ELSE (IF rts[i][1] = portId THEN <<rts[i][2]>> ELSE <<>>)
           \o (IF rts[i][2] = portId THEN <<rts[i][1]>> ELSE <<>>)
           \o DirectAdjacent(rts, portId, i + 1)

RECURSIVE VisitAdjacent(_, _, _)
\* the "for adj" loop; acc carries visited, reachable and nextLevel
VisitAdjacent(acc, adjacent, k) ==
    IF k > Len(adjacent) THEN acc
    ELSE LET adj == adjacent[k]
         IN IF Includes(acc.visited, adj) THEN VisitAdjacent(acc, adjacent, k + 1)
            ELSE VisitAdjacent([visited |-> SetAdd(acc.visited, adj),
                                reachable |-> SetAdd(acc.reachable, adj),
                                nextLevel |-> Append(acc.nextLevel, adj)],
                               adjacent, k + 1)

RECURSIVE VisitLevel(_, _, _, _)
\* the "for current" loop
VisitLevel(rts, acc, currentLevel, j) ==
    IF j > Len(currentLevel) THEN acc
    ELSE VisitLevel(rts,
                    VisitAdjacent(acc, DirectAdjacent(rts, currentLevel[j], 1), 1),
                    currentLevel, j + 1)

RECURSIVE ReachLevels(_, _, _, _)
\* the "for edge" loop from pass edge on; acc carries visited, reachable and
\* the level the pass before it built
ReachLevels(rts, edge, maxEdges, acc) ==
    IF edge > maxEdges THEN acc.reachable
    ELSE ReachLevels(rts, edge + 1, maxEdges,
                     VisitLevel(rts, [acc EXCEPT !.nextLevel = <<>>],
                                acc.nextLevel, 1))

\* Reachable starting with nothing visited
Reachable_OriginNotVisited(rts, portId, maxEdges) ==
    ReachLevels(rts, 1, maxEdges,
                [visited |-> <<>>, reachable |-> <<>>, nextLevel |-> <<portId>>])

\* getReachablePorts: Array.from(reachable)
Reachable(rts, portId, maxEdges) ==
    ReachLevels(rts, 1, maxEdges,
                [visited |-> <<portId>>, reachable |-> <<>>,
                 nextLevel |-> <<portId>>])

getDirectAdjacentPorts(portId) == DirectAdjacent(ROUTES, portId, 1)

\* the routes never change after construction: the answers of
\* getReachablePorts for the ports and the speeds of the game, computed once
REACHABLE_PORTS ==
    [portId \in PortIds |->
       [maxEdges \in {SHIP_CLASS[s].speed : s \in ShipIds} |->
          Reachable(ROUTES, portId, maxEdges)]]

getReachablePorts(portId, maxEdges) == REACHABLE_PORTS[portId][maxEdges]

getAdjacentPorts(portId, shipId) ==
    getReachablePorts(portId, SHIP_CLASS[shipId].speed)

(***************************************************************************)
(* Cargo helpers.                                                           *)
(***************************************************************************)
RECURSIVE SumQuantity(_)
\* ship.cargo.reduce((sum, c) => sum + c.quantity, 0)
SumQuantity(cargo) ==
    IF cargo = <<>> THEN 0 ELSE Head(cargo).quantity + SumQuantity(Tail(cargo))

\* new Set(ship.cargo.map((c) => c.color))
CargoColors(cargo) == {cargo[i].color : i \in DOMAIN cargo}

\* ship.cargo.find((c) => c.color === color): index of the first entry, 0 if none
FindCargo(cargo, color) ==
    IF \E i \in DOMAIN cargo : cargo[i].color = color
    THEN CHOOSE i \in DOMAIN cargo :
             /\ cargo[i].color = color
             /\ \A j \in DOMAIN cargo : cargo[j].color = color => i <= j
    ELSE 0

RECURSIVE FilterCargo(_, _)
\* cargo.filter(keep), keep given as the set of entries to keep
FilterCargo(cargo, keep) ==
    IF cargo = <<>> THEN <<>>
    ELSE IF Head(cargo) \in keep
         THEN <<Head(cargo)>> \o FilterCargo(Tail(cargo), keep)
         ELSE FilterCargo(Tail(cargo), keep)

EntriesOf(cargo) == {cargo[i] : i \in DOMAIN cargo}

getShipRemainingCapacity(gs, shipId) ==
    SHIP_CLASS[shipId].capacity - SumQuantity(gs.ships[shipId].cargo)

canLoadColor(gs, shipId, color) ==
    LET currentColors == CargoColors(gs.ships[shipId].cargo)
    IN IF color \in currentColors THEN TRUE
       ELSE Cardinality(currentColors) < SHIP_CLASS[shipId].maxColors

(***************************************************************************)
(* Cargo transactions: the state updaters of loadCargo, returnCargo and     *)
(* unloadCargo.  Each xxxOutcome names the branch the updater takes.        *)
(***************************************************************************)
\* loadOutcome without the check of the color limit
loadOutcome_NoColorCheck(prev, shipId, color, quantity) ==
    LET ship == prev.ships[shipId]
    IN IF ship.status # "docked" \/ ship.currentPort = Undefined THEN "notDocked"
       ELSE IF (prev.ports[ship.currentPort][color] \div 2) < quantity THEN "stock"
       ELSE IF SumQuantity(ship.cargo) + quantity > SHIP_CLASS[shipId].capacity
            THEN "capacity"
       ELSE "ok"

\* loadOutcome with the stock rounded up instead of down
loadOutcome_RoundsUp(prev, shipId, color, quantity) ==
    LET ship == prev.ships[shipId]
    IN IF ship.status # "docked" \/ ship.currentPort = Undefined THEN "notDocked"
       ELSE IF ((prev.ports[ship.currentPort][color] + 1) \div 2) < quantity
            THEN "stock"
       ELSE IF SumQuantity(ship.cargo) + quantity > SHIP_CLASS[shipId].capacity
            THEN "capacity"
       ELSE IF /\ color \notin CargoColors(ship.cargo)
               /\ Cardinality(CargoColors(ship.cargo)) >= SHIP_CLASS[shipId].maxColors
            THEN "colors"
       ELSE "ok"

loadOutcome(prev, shipId, color, quantity) ==
    LET ship == prev.ships[shipId]
    IN IF ship.status # "docked" \/ ship.currentPort = Undefined THEN "notDocked"
       ELSE IF (prev.ports[ship.currentPort][color] \div 2) < quantity THEN "stock"
       ELSE IF SumQuantity(ship.cargo) + quantity > SHIP_CLASS[shipId].capacity
            THEN "capacity"
       ELSE IF /\ color \notin CargoColors(ship.cargo)
               /\ Cardinality(CargoColors(ship.cargo)) >= SHIP_CLASS[shipId].maxColors
            THEN "colors"
       ELSE "ok"

loadCargo(prev, shipId, color, quantity) ==
    IF loadOutcome(prev, shipId, color, quantity) # "ok" THEN prev
    ELSE LET ship == prev.ships[shipId]
             k == FindCargo(ship.cargo, color)
             newCargo ==
                 IF k # 0
                 THEN [ship.cargo EXCEPT ![k].quantity = @ + quantity]
                 ELSE Append(ship.cargo, [color |-> color, quantity |-> quantity])
         IN [prev EXCEPT !.ports[ship.currentPort][color] = @ - 2 * quantity,
                         !.ships[shipId].cargo = newCargo,
                         !.logs = @ + 1]

\* returnOutcome without the check that the port is a supply port
returnOutcome_AnyPort(prev, shipId, color) ==
    LET ship == prev.ships[shipId]
    IN IF ship.status # "docked" \/ ship.currentPort = Undefined THEN "notDocked"
       ELSE IF FindCargo(ship.cargo, color) = 0 THEN "noCargo"
       ELSE "ok"

returnOutcome(prev, shipId, color) ==
    LET ship == prev.ships[shipId]
    IN IF ship.status # "docked" \/ ship.currentPort = Undefined THEN "notDocked"
       ELSE IF INITIAL_PORTS[ship.currentPort].type # "supply" THEN "notSupply"
       ELSE IF FindCargo(ship.cargo, color) = 0 THEN "noCargo"
       ELSE "ok"

\* returnCargo leaving the emptied entry in the cargo
returnCargo_KeepsEmptyEntry(prev, shipId, color) ==
    IF returnOutcome(prev, shipId, color) # "ok" THEN prev
    ELSE LET ship == prev.ships[shipId]
             k == FindCargo(ship.cargo, color)
         IN [prev EXCEPT !.ports[ship.currentPort][color] = @ + 2,
                         !.ships[shipId].cargo[k].quantity = @ - 1]

returnCargo(prev, shipId, color) ==
    IF returnOutcome(prev, shipId, color) # "ok" THEN prev
    ELSE LET ship == prev.ships[shipId]
             k == FindCargo(ship.cargo, color)
             decremented == [ship.cargo EXCEPT ![k].quantity = @ - 1]
             newCargo ==
                 IF decremented[k].quantity <= 0
                 THEN FilterCargo(decremented,
                                  {c \in EntriesOf(decremented) : c.quantity > 0})
                 ELSE decremented
         IN [prev EXCEPT !.ports[ship.currentPort][color] = @ + 2,
                         !.ships[shipId].cargo = newCargo]

unloadOutcome(prev, shipId) ==
    LET ship == prev.ships[shipId]
    IN IF ship.status # "docked" \/ ship.currentPort = Undefined THEN "notDocked"
       ELSE IF \/ INITIAL_PORTS[ship.currentPort].type # "demand"
               \/ INITIAL_PORTS[ship.currentPort].demandColor = Undefined
            THEN "notDemand"
       ELSE IF ship.cargo = <<>> THEN "empty"
       ELSE IF FindCargo(ship.cargo, INITIAL_PORTS[ship.currentPort].demandColor) = 0
            THEN "noCargo"
       ELSE "ok"

\* unloadCargo forgetting the score
unloadCargo_NoScore(prev, shipId) ==
    IF unloadOutcome(prev, shipId) # "ok" THEN prev
    ELSE LET ship == prev.ships[shipId]
             demandColor == INITIAL_PORTS[ship.currentPort].demandColor
             unloadedQuantity ==
                 ship.cargo[FindCargo(ship.cargo, demandColor)].quantity
         IN [prev EXCEPT
               !.cityInventories =
                   [i \in DOMAIN prev.cityInventories |->
                      IF prev.cityInventories[i].portId # ship.currentPort
                      THEN prev.cityInventories[i]
                      ELSE [prev.cityInventories[i] EXCEPT
                              !.stock = @ + unloadedQuantity]],
               !.ships[shipId].cargo =
                   FilterCargo(ship.cargo,
                               {c \in EntriesOf(ship.cargo) : c.color # demandColor}),
               !.logs = @ + 1]

\* unloadCargo putting every color ashore
unloadCargo_DropsAll(prev, shipId) ==
    IF unloadOutcome(prev, shipId) # "ok" THEN prev
    ELSE LET ship == prev.ships[shipId]
             demandColor == INITIAL_PORTS[ship.currentPort].demandColor
             unloadedQuantity ==
                 ship.cargo[FindCargo(ship.cargo, demandColor)].quantity
         IN [prev EXCEPT
               !.cityInventories =
                   [i \in DOMAIN prev.cityInventories |->
                      IF prev.cityInventories[i].portId # ship.currentPort
                      THEN prev.cityInventories[i]
                      ELSE [prev.cityInventories[i] EXCEPT
                              !.stock = @ + unloadedQuantity]],
               !.ships[shipId].cargo = <<>>,
               !.score = @ + unloadedQuantity,
               !.logs = @ + 1]

unloadCargo(prev, shipId) ==
    IF unloadOutcome(prev, shipId) # "ok" THEN prev
    ELSE LET ship == prev.ships[shipId]
             demandColor == INITIAL_PORTS[ship.currentPort].demandColor
             unloadedQuantity ==
                 ship.cargo[FindCargo(ship.cargo, demandColor)].quantity
             newCityInventories ==
                 [i \in DOMAIN prev.cityInventories |->
                    IF \/ prev.cityInventories[i].portId # ship.currentPort
                       \/ prev.cityInventories[i].color # demandColor
                    THEN prev.cityInventories[i]
                    ELSE [prev.cityInventories[i] EXCEPT
                            !.stock = @ + unloadedQuantity]]
         IN [prev EXCEPT
               !.cityInventories = newCityInventories,
               !.ships[shipId].cargo =
                   FilterCargo(ship.cargo,
                               {c \in EntriesOf(ship.cargo) : c.color # demandColor}),
               !.score = @ + unloadedQuantity,
               !.logs = @ + 1]

(***************************************************************************)
(* Sailing.                                                                 *)
(***************************************************************************)
\* sailOutcome without the check of the reachable ports
sailOutcome_AnyPort(prev, shipId, destination) ==
    LET ship == prev.ships[shipId]
    IN IF ship.status # "docked" \/ ship.currentPort = Undefined THEN "notDocked"
       ELSE "ok"

sailOutcome(prev, shipId, destination) ==
    LET ship == prev.ships[shipId]
    IN IF ship.status # "docked" \/ ship.currentPort = Undefined THEN "notDocked"
       ELSE IF ~Includes(getAdjacentPorts(ship.currentPort, shipId), destination)
            THEN "unreachable"
       ELSE "ok"

\* sail taking as many turns as the ship's speed
sail_TurnsBySpeed(prev, shipId, destination) ==
    IF sailOutcome(prev, shipId, destination) # "ok" THEN prev
    ELSE [prev EXCEPT
            !.ships[shipId] =
                [@ EXCEPT !.status = "sailing",
                          !.sailingFrom = prev.ships[shipId].currentPort,
                          !.sailingTo = destination,
                          !.currentPort = Undefined,
                          !.remainingTurns = SHIP_CLASS[shipId].speed,
                          !.totalTurns = SHIP_CLASS[shipId].speed],
            !.logs = @ + 1]

sail(prev, shipId, destination) ==
    IF sailOutcome(prev, shipId, destination) # "ok" THEN prev
    ELSE [prev EXCEPT
            !.ships[shipId] =
                [@ EXCEPT !.status = "sailing",
                          !.sailingFrom = prev.ships[shipId].currentPort,
                          !.sailingTo = destination,
                          !.currentPort = Undefined,
                          !.remainingTurns = 1,
                          !.totalTurns = 1],
            !.logs = @ + 1]

(***************************************************************************)
(* End of turn: the state updater of nextTurn.                              *)
(***************************************************************************)
\* the production phase's local constant, in whole units
SUPPLY_STOCK_LIMIT == 10

Min(a, b) == IF a <= b THEN a ELSE b

RECURSIVE DemandPhase_NeverOver(_, _, _, _)
\* DemandPhase going on past an entry driven below zero
DemandPhase_NeverOver(invs, i, turn, newLogs) ==
    IF i > Len(invs)
    THEN [cityInventories |-> invs, newLogs |-> newLogs, over |-> FALSE]
    ELSE LET stock == invs[i].stock - getDemandForTurn(turn, invs[i].portId)
         IN DemandPhase_NeverOver([invs EXCEPT ![i].stock = stock], i + 1, turn,
                                  IF stock <= 5 THEN newLogs + 1 ELSE newLogs)

RECURSIVE DemandPhase(_, _, _, _)
\* the loop over newState.cityInventories from entry i on; it stops at the
\* first entry driven below zero, leaving the later entries untouched
DemandPhase(invs, i, turn, newLogs) ==
    IF i > Len(invs)
    THEN [cityInventories |-> invs, newLogs |-> newLogs, over |-> FALSE]
    ELSE LET stock == invs[i].stock - getDemandForTurn(turn, invs[i].portId)
             updated == [invs EXCEPT ![i].stock = stock]
         IN IF stock < 0
            THEN [cityInventories |-> updated, newLogs |-> newLogs + 1, over |-> TRUE]
            ELSE DemandPhase(updated, i + 1, turn,
                             IF stock <= 5 THEN newLogs + 1 ELSE newLogs)

\* cityInventories.find((i) => i.portId === portId && i.color === color): index, 0 if none
FindInventory(invs, portId, color) ==
    IF \E i \in DOMAIN invs : invs[i].portId = portId /\ invs[i].color = color
    THEN CHOOSE i \in DOMAIN invs :
             /\ invs[i].portId = portId /\ invs[i].color = color
             /\ \A j \in DOMAIN invs :
                    invs[j].portId = portId /\ invs[j].color = color => i <= j
    ELSE 0

\* ArriveShip putting every color ashore where it delivers one
ArriveShip_DropsAll(acc, shipId) ==
    LET ship == acc.ships[shipId]
    IN IF ~(ship.status = "sailing" /\ ship.remainingTurns # UndefinedTurns) THEN acc
       ELSE IF ship.remainingTurns - 1 > 0
            THEN [acc EXCEPT !.ships[shipId].remainingTurns = @ - 1]
       ELSE
         LET dest == ship.sailingTo
             destPort == INITIAL_PORTS[dest]
             k == IF destPort.type = "demand" /\ destPort.demandColor # Undefined
                     /\ ship.cargo # <<>>
                  THEN FindCargo(ship.cargo, destPort.demandColor)
                  ELSE 0
             inv == IF k = 0 THEN 0
                    ELSE FindInventory(acc.cityInventories, dest, destPort.demandColor)
             quantity == IF k = 0 THEN 0 ELSE ship.cargo[k].quantity
             newCargo ==
                 IF k = 0 THEN ship.cargo
                 ELSE <<>>
         IN [ships |->
               [acc.ships EXCEPT ![shipId] =
                  [status |-> "docked", currentPort |-> dest,
                   sailingFrom |-> Undefined, sailingTo |-> Undefined,
                   remainingTurns |-> UndefinedTurns, totalTurns |-> UndefinedTurns,
                   cargo |-> newCargo]],
             cityInventories |->
               IF inv = 0 THEN acc.cityInventories
               ELSE [acc.cityInventories EXCEPT ![inv].stock = @ + quantity],
             newLogs |-> acc.newLogs + 1 + (IF k = 0 THEN 0 ELSE 1),
             deliveredCargo |->
               acc.deliveredCargo + (IF inv = 0 THEN 0 ELSE quantity)]

\* one ship of the arrival loop; acc carries ships, cityInventories, newLogs
\* and deliveredCargo
ArriveShip(acc, shipId) ==
    LET ship == acc.ships[shipId]
    IN IF ~(ship.status = "sailing" /\ ship.remainingTurns # UndefinedTurns) THEN acc
       ELSE IF ship.remainingTurns - 1 > 0
            THEN [acc EXCEPT !.ships[shipId].remainingTurns = @ - 1]
       ELSE
         LET dest == ship.sailingTo
             destPort == INITIAL_PORTS[dest]
             k == IF destPort.type = "demand" /\ destPort.demandColor # Undefined
                     /\ ship.cargo # <<>>
                  THEN FindCargo(ship.cargo, destPort.demandColor)
                  ELSE 0
             inv == IF k = 0 THEN 0
                    ELSE FindInventory(acc.cityInventories, dest, destPort.demandColor)
             quantity == IF k = 0 THEN 0 ELSE ship.cargo[k].quantity
             newCargo ==
                 IF k = 0 THEN ship.cargo
                 ELSE FilterCargo(ship.cargo,
                          {c \in EntriesOf(ship.cargo) : c.color # destPort.demandColor})
         IN [ships |->
               [acc.ships EXCEPT ![shipId] =
                  [status |-> "docked", currentPort |-> dest,
                   sailingFrom |-> Undefined, sailingTo |-> Undefined,
                   remainingTurns |-> UndefinedTurns, totalTurns |-> UndefinedTurns,
                   cargo |-> newCargo]],
             cityInventories |->
               IF inv = 0 THEN acc.cityInventories
               ELSE [acc.cityInventories EXCEPT ![inv].stock = @ + quantity],
             newLogs |-> acc.newLogs + 1 + (IF k = 0 THEN 0 ELSE 1),
             deliveredCargo |->
               acc.deliveredCargo + (IF inv = 0 THEN 0 ELSE quantity)]

RECURSIVE ArrivalPhase(_, _)
\* for (const ship of newState.ships), in the order of the ships array
ArrivalPhase(acc, i) ==
    IF i > Len(SHIP_IDS) THEN acc
    ELSE ArrivalPhase(ArriveShip(acc, SHIP_IDS[i]), i + 1)

\* the production phase: every color of every supply port, clamped
ProductionPhase(ports) ==
    [p \in PortIds |->
       IF INITIAL_PORTS[p].type = "supply"
       THEN [c \in ColorSet |->
               Min(ports[p][c] + INITIAL_PORTS[p].supplyPerTurn[c],
                   2 * SUPPLY_STOCK_LIMIT)]
       ELSE ports[p]]

\* nextTurn running the production phase before it reports the game over
nextTurn_ProducesWhenOver(prev) ==
    IF prev.status # "playing" THEN prev
    ELSE
      LET demand ==
              IF ~prev.demandFrozenThisTurn
              THEN DemandPhase(prev.cityInventories, 1, prev.turn, 0)
              ELSE [cityInventories |-> prev.cityInventories, newLogs |-> 1,
                    over |-> FALSE]
      IN IF demand.over
         THEN [prev EXCEPT !.cityInventories = demand.cityInventories,
                           !.status = "gameover",
                           !.ports = ProductionPhase(prev.ports),
                           !.logs = @ + demand.newLogs]
         ELSE
           LET arrival ==
                   ArrivalPhase([ships |-> prev.ships,
                                 cityInventories |-> demand.cityInventories,
                                 newLogs |-> demand.newLogs,
                                 deliveredCargo |-> 0], 1)
               newTurn == prev.turn + 1
               newDemandLevel == getDemandLevel(newTurn)
               levelUp == IF newDemandLevel > getDemandLevel(prev.turn) THEN 1 ELSE 0
               cleared == newTurn > MaxTurns
           IN [turn |-> newTurn,
               status |-> IF cleared THEN "cleared" ELSE prev.status,
               demandLevel |-> newDemandLevel,
               ports |-> ProductionPhase(prev.ports),
               ships |-> arrival.ships,
               cityInventories |-> arrival.cityInventories,
               logs |-> prev.logs + arrival.newLogs + levelUp
                          + (IF cleared THEN 1 ELSE 0),
               score |-> prev.score + arrival.deliveredCargo,
               items |-> prev.items,
               demandFrozenThisTurn |-> FALSE]

\* nextTurn reporting the game cleared on reaching the last turn
nextTurn_ClearsOnLastTurn(prev) ==
    IF prev.status # "playing" THEN prev
    ELSE
      LET demand ==
              IF ~prev.demandFrozenThisTurn
              THEN DemandPhase(prev.cityInventories, 1, prev.turn, 0)
              ELSE [cityInventories |-> prev.cityInventories, newLogs |-> 1,
                    over |-> FALSE]
      IN IF demand.over
         THEN [prev EXCEPT !.cityInventories = demand.cityInventories,
                           !.status = "gameover",
                           !.logs = @ + demand.newLogs]
         ELSE
           LET arrival ==
                   ArrivalPhase([ships |-> prev.ships,
                                 cityInventories |-> demand.cityInventories,
                                 newLogs |-> demand.newLogs,
                                 deliveredCargo |-> 0], 1)
               newTurn == prev.turn + 1
               newDemandLevel == getDemandLevel(newTurn)
               levelUp == IF newDemandLevel > getDemandLevel(prev.turn) THEN 1 ELSE 0
               cleared == newTurn >= MaxTurns
           IN [turn |-> newTurn,
               status |-> IF cleared THEN "cleared" ELSE prev.status,
               demandLevel |-> newDemandLevel,
               ports |-> ProductionPhase(prev.ports),
               ships |-> arrival.ships,
               cityInventories |-> arrival.cityInventories,
               logs |-> prev.logs + arrival.newLogs + levelUp
                          + (IF cleared THEN 1 ELSE 0),
               score |-> prev.score + arrival.deliveredCargo,
               items |-> prev.items,
               demandFrozenThisTurn |-> FALSE]

\* nextTurn letting the ships arrive and unload before the demand is taken
nextTurn_ArrivesFirst(prev) ==
    IF prev.status # "playing" THEN prev
    ELSE
      LET arrival ==
              ArrivalPhase([ships |-> prev.ships,
                            cityInventories |-> prev.cityInventories,
                            newLogs |-> 0,
                            deliveredCargo |-> 0], 1)
          demand ==
              IF ~prev.demandFrozenThisTurn
              THEN DemandPhase(arrival.cityInventories, 1, prev.turn, arrival.newLogs)
              ELSE [cityInventories |-> arrival.cityInventories,
                    newLogs |-> arrival.newLogs + 1, over |-> FALSE]
          newTurn == prev.turn + 1
          newDemandLevel == getDemandLevel(newTurn)
          levelUp == IF newDemandLevel > getDemandLevel(prev.turn) THEN 1 ELSE 0
          cleared == newTurn > MaxTurns
      IN IF demand.over
         THEN [prev EXCEPT !.cityInventories = demand.cityInventories,
                           !.ships = arrival.ships,
                           !.status = "gameover",
                           !.logs = @ + demand.newLogs]
         ELSE [turn |-> newTurn,
               status |-> IF cleared THEN "cleared" ELSE prev.status,
               demandLevel |-> newDemandLevel,
               ports |-> ProductionPhase(prev.ports),
               ships |-> arrival.ships,
               cityInventories |-> demand.cityInventories,
               logs |-> prev.logs + demand.newLogs + levelUp
                          + (IF cleared THEN 1 ELSE 0),
               score |-> prev.score + arrival.deliveredCargo,
               items |-> prev.items,
               demandFrozenThisTurn |-> FALSE]

nextTurn(prev) ==
    IF prev.status # "playing" THEN prev
    ELSE
      LET demand ==
              IF ~prev.demandFrozenThisTurn
              THEN DemandPhase(prev.cityInventories, 1, prev.turn, 0)
              ELSE [cityInventories |-> prev.cityInventories, newLogs |-> 1,
                    over |-> FALSE]
      IN IF demand.over
         THEN [prev EXCEPT !.cityInventories = demand.cityInventories,
                           !.status = "gameover",
                           !.logs = @ + demand.newLogs]
         ELSE
           LET arrival ==
                   ArrivalPhase([ships |-> prev.ships,
                                 cityInventories |-> demand.cityInventories,
                                 newLogs |-> demand.newLogs,
                                 deliveredCargo |-> 0], 1)
               newTurn == prev.turn + 1
               newDemandLevel == getDemandLevel(newTurn)
               levelUp == IF newDemandLevel > getDemandLevel(prev.turn) THEN 1 ELSE 0
               cleared == newTurn > MaxTurns
           IN [turn |-> newTurn,
               status |-> IF cleared THEN "cleared" ELSE prev.status,
               demandLevel |-> newDemandLevel,
               ports |-> ProductionPhase(prev.ports),
               ships |-> arrival.ships,
               cityInventories |-> arrival.cityInventories,
               logs |-> prev.logs + arrival.newLogs + levelUp
                          + (IF cleared THEN 1 ELSE 0),
               score |-> prev.score + arrival.deliveredCargo,
               items |-> prev.items,
               demandFrozenThisTurn |-> FALSE]

(***************************************************************************)
(* History.  A pair [gameState, stateHistory] is the hook's whole state.    *)
(***************************************************************************)
\* nextTurnCall pushing the state after the turn
nextTurnCall_PushesAfter(gs, history) ==
    [gameState |-> nextTurn(gs), stateHistory |-> Append(history, nextTurn(gs))]

\* nextTurn as called: the snapshot is pushed whatever the status
nextTurnCall(gs, history) ==
    [gameState |-> nextTurn(gs), stateHistory |-> Append(history, gs)]

\* what undoTurn returns: false on an empty history; canUndo is the same test
undoTurnReturns(history) == Len(history) # 0

\* undoTurn restoring the last snapshot without taking it off the history
undoTurn_KeepsSnapshot(gs, history) ==
    IF Len(history) = 0 THEN [gameState |-> gs, stateHistory |-> history]
    ELSE [gameState |-> [history[Len(history)] EXCEPT !.logs = @ + 1],
          stateHistory |-> history]

undoTurn(gs, history) ==
    IF Len(history) = 0 THEN [gameState |-> gs, stateHistory |-> history]
    ELSE LET previousState == history[Len(history)]
         IN [gameState |-> [previousState EXCEPT !.logs = @ + 1],
             stateHistory |-> SubSeq(history, 1, Len(history) - 1)]

\* resetGame without the second setter: the history survives
resetGame_KeepsHistory ==
    [gameState |-> createInitialGameState, stateHistory |-> <<createInitialGameState>>]

resetGame == [gameState |-> createInitialGameState, stateHistory |-> <<>>]

(***************************************************************************)
(* Items.                                                                   *)
(***************************************************************************)
\* supplyBoostOutcome without the check of the used flag
supplyBoostOutcome_IgnoresUsed(prev, portId) ==
    IF INITIAL_PORTS[portId].type # "supply" THEN "notSupply" ELSE "ok"

supplyBoostOutcome(prev, portId) ==
    IF prev.items["supplyBoost"].used THEN "used"
    ELSE IF INITIAL_PORTS[portId].type # "supply" THEN "notSupply"
    ELSE "ok"

useSupplyBoost(prev, portId) ==
    IF supplyBoostOutcome(prev, portId) # "ok" THEN prev
    ELSE [prev EXCEPT
            !.ports[portId] =
                [c \in ColorSet |->
                   IF INITIAL_PORTS[portId].supplyPerTurn[c] > 0
                   THEN 2 * SUPPLY_STOCK_LIMIT
                   ELSE prev.ports[portId][c]],
            !.items["supplyBoost"].used = TRUE,
            !.logs = @ + 1]

demandFreezeOutcome(prev) ==
    IF prev.items["demandFreeze"].used THEN "used" ELSE "ok"

\* useDemandFreeze setting the flag without marking the item used
useDemandFreeze_LeavesUnused(prev) ==
    IF demandFreezeOutcome(prev) # "ok" THEN prev
    ELSE [prev EXCEPT !.demandFrozenThisTurn = TRUE,
                      !.logs = @ + 1]

useDemandFreeze(prev) ==
    IF demandFreezeOutcome(prev) # "ok" THEN prev
    ELSE [prev EXCEPT !.items["demandFreeze"].used = TRUE,
                      !.demandFrozenThisTurn = TRUE,
                      !.logs = @ + 1]

teleportOutcome(prev, shipId, destPortId) ==
    IF prev.items["teleport"].used THEN "used" ELSE "ok"

\* useTeleport putting the ship in port as a new ship, its cargo gone
useTeleport_DropsCargo(prev, shipId, destPortId) ==
    IF teleportOutcome(prev, shipId, destPortId) # "ok" THEN prev
    ELSE [prev EXCEPT
            !.ships[shipId] = DockedAt(destPortId),
            !.items["teleport"].used = TRUE,
            !.logs = @ + 1]

useTeleport(prev, shipId, destPortId) ==
    IF teleportOutcome(prev, shipId, destPortId) # "ok" THEN prev
    ELSE [prev EXCEPT
            !.ships[shipId] =
                [@ EXCEPT !.status = "docked",
                          !.currentPort = destPortId,
                          !.sailingFrom = Undefined,
                          !.sailingTo = Undefined,
                          !.remainingTurns = UndefinedTurns,
                          !.totalTurns = UndefinedTurns],
            !.items["teleport"].used = TRUE,
            !.logs = @ + 1]

(***************************************************************************)
(* The state machine.  gameState and stateHistory are the hook's two state  *)
(* cells; lastOp is the last command that was applied.                      *)
(* Commands are issued one at a time, each on the rendered state, and       *)
(* spaced further apart than the load cooldown.                             *)
(* currentShip is the ship the player operates (Game's currentShip): an     *)
(* explored session commands one ship, any of the three, and leaves the     *)
(* other two where they start.                                              *)
(* start is the log length and history depth at which the explored          *)
(* commands begin; the exploration bounds are counted from it.              *)
(***************************************************************************)
INPUT_PORT_ORDER ==
    <<"KOR", "TKO", "OGS", "MYZ", "SAP", "TAW", "KYT", "OKN", "RUS", "IDN", "VNM",
      "PHL", "HKG", "GUM", "PLW", "PNG", "MTR", "SGP", "SKH", "AUS", "BGD">>

InputPorts ==
    {INPUT_PORT_ORDER[i] : i \in 1..Min(MaxInputPorts, Len(INPUT_PORT_ORDER))}

LoadQtys == {1, MaxQty}

StartAt(gs, history) == [logs |-> gs.logs, depth |-> Len(history)]

Init ==
    /\ routes = ROUTES
    /\ reached = <<>>
    /\ SideIdle
    /\ heap = <<>>
    /\ pushed = <<>>
    /\ gameState = createInitialGameState
    /\ stateHistory = <<>>
    /\ lastOp = "init"
    /\ currentShip \in ShipIds
    /\ start = StartAt(gameState, stateHistory)

RECURSIVE Idle(_)
\* the hook's state after n calls of nextTurn from the initial state
Idle(n) ==
    IF n = 0 THEN [gameState |-> createInitialGameState, stateHistory |-> <<>>]
    ELSE nextTurnCall(Idle(n - 1).gameState, Idle(n - 1).stateHistory)

InitLate ==
    /\ routes = ROUTES
    /\ reached = <<>>
    /\ SideIdle
    /\ heap = <<>>
    /\ pushed = <<>>
    /\ gameState = Idle(IdleTurns).gameState
    /\ stateHistory = Idle(IdleTurns).stateHistory
    /\ lastOp = "nextTurn"
    /\ currentShip \in ShipIds
    /\ start = StartAt(gameState, stateHistory)

\* the commands of a played game
SailTo(shipId, destination) ==
    [op |-> "sail", shipId |-> shipId, destination |-> destination,
     color |-> Undefined, quantity |-> 0]

LoadOf(shipId, color, quantity) ==
    [op |-> "load", shipId |-> shipId, destination |-> Undefined,
     color |-> color, quantity |-> quantity]

\* one game played to the eve of its last turn: the commands of each turn, in
\* the order they are issued, every turn ended with nextTurn
PLAY ==
    <<
       << SailTo("medium", "KOR"), SailTo("small", "SKH") >>,
       << SailTo("large", "OGS"), LoadOf("medium", "red", 1),
          LoadOf("medium", "blue", 1), SailTo("medium", "TAW"),
          LoadOf("small", "yellow", 3), SailTo("small", "MYZ") >>,
       << LoadOf("large", "red", 2), SailTo("large", "OKN"),
          LoadOf("medium", "red", 2), LoadOf("medium", "blue", 2),
          SailTo("medium", "SAP"), SailTo("small", "IDN") >>,
       << LoadOf("large", "blue", 2), SailTo("large", "TKO"),
          SailTo("medium", "GUM"), LoadOf("small", "red", 5),
          SailTo("small", "TKO") >>,
       << SailTo("large", "OKN"), LoadOf("medium", "blue", 3),
          SailTo("medium", "SAP"), SailTo("small", "IDN") >>,
       << LoadOf("large", "blue", 1), SailTo("large", "OGS"),
          SailTo("medium", "TKO"), LoadOf("small", "blue", 3),
          SailTo("small", "AUS") >>,
       << LoadOf("large", "red", 2), SailTo("large", "TKO"),
          SailTo("medium", "PHL"), LoadOf("small", "blue", 8),
          SailTo("small", "GUM") >>,
       << SailTo("large", "SAP"), LoadOf("medium", "green", 4),
          LoadOf("medium", "red", 4), SailTo("medium", "AUS"),
          LoadOf("small", "blue", 1), SailTo("small", "SAP") >>,
       << SailTo("large", "KOR"), LoadOf("medium", "green", 10),
          SailTo("medium", "PHL"), SailTo("small", "SKH") >>,
       << LoadOf("large", "red", 4), LoadOf("large", "blue", 4),
          SailTo("large", "TAW"), SailTo("medium", "TKO"),
          LoadOf("small", "yellow", 8), SailTo("small", "RUS") >>,
       << LoadOf("large", "red", 4), LoadOf("large", "blue", 4),
          SailTo("large", "HKG"), SailTo("medium", "KYT"),
          LoadOf("small", "yellow", 4), SailTo("small", "MYZ") >>,
       << LoadOf("large", "red", 6), SailTo("medium", "RUS"),
          SailTo("small", "IDN") >>,
       << LoadOf("large", "red", 1), SailTo("large", "TAW"),
          LoadOf("medium", "blue", 7), LoadOf("medium", "yellow", 3),
          SailTo("medium", "SKH"), LoadOf("small", "red", 9),
          SailTo("small", "TKO") >>,
       << LoadOf("large", "blue", 1), SailTo("large", "MYZ"),
          LoadOf("medium", "yellow", 4), SailTo("medium", "SAP"),
          SailTo("small", "MTR") >>,
       << SailTo("large", "TKO"), SailTo("medium", "OKN"),
          LoadOf("small", "green", 8), SailTo("small", "KYT") >>,
       << SailTo("large", "SAP"), LoadOf("medium", "blue", 5),
          SailTo("medium", "MYZ"), SailTo("small", "SKH") >>,
       << SailTo("large", "KOR"), SailTo("medium", "SAP"),
          LoadOf("small", "red", 9), SailTo("small", "TKO") >>,
       << LoadOf("large", "blue", 4), LoadOf("large", "red", 4),
          SailTo("large", "SAP"), SailTo("medium", "RUS"),
          SailTo("small", "PHL") >>,
       << SailTo("large", "SKH"), LoadOf("medium", "yellow", 3),
          LoadOf("medium", "blue", 3), SailTo("medium", "TAW"),
          LoadOf("small", "green", 6), SailTo("small", "KYT") >>,
       << LoadOf("large", "yellow", 6), LoadOf("large", "red", 1),
          LoadOf("medium", "blue", 3), SailTo("medium", "GUM"),
          SailTo("small", "VNM") >>,
       << LoadOf("large", "yellow", 1), LoadOf("large", "red", 1),
          SailTo("large", "SAP"), LoadOf("medium", "blue", 7),
          SailTo("medium", "SAP"), LoadOf("small", "green", 10),
          SailTo("small", "KYT") >>,
       << SailTo("large", "TKO"), SailTo("medium", "OGS"),
          SailTo("small", "HKG") >>,
       << SailTo("large", "OKN"), LoadOf("medium", "red", 8),
          SailTo("medium", "PHL"), LoadOf("small", "yellow", 10),
          SailTo("small", "MYZ") >>,
       << LoadOf("large", "blue", 4), SailTo("large", "MYZ"),
          LoadOf("medium", "red", 7), SailTo("medium", "TKO"),
          SailTo("small", "PLW") >>,
       << SailTo("large", "TAW"), SailTo("medium", "MTR"),
          LoadOf("small", "blue", 10), SailTo("small", "SAP") >>,
       << LoadOf("large", "blue", 3), LoadOf("large", "red", 7),
          SailTo("large", "KOR"), LoadOf("medium", "green", 5),
          SailTo("medium", "KYT"), SailTo("small", "PLW") >>,
       << LoadOf("large", "blue", 5), LoadOf("large", "red", 5),
          SailTo("large", "SAP"), SailTo("medium", "SKH"),
          LoadOf("small", "yellow", 10), SailTo("small", "MYZ") >>,
       << SailTo("large", "TKO"), LoadOf("medium", "yellow", 7),
          SailTo("medium", "RUS"), SailTo("small", "BGD") >>,
       << SailTo("large", "OKN"), LoadOf("medium", "yellow", 5),
          SailTo("medium", "MYZ"), SailTo("small", "VNM") >>
    >>

ApplyCommand(gs, cmd) ==
    IF cmd.op = "sail" THEN sail(gs, cmd.shipId, cmd.destination)
    ELSE loadCargo(gs, cmd.shipId, cmd.color, cmd.quantity)

RECURSIVE ApplyCommands(_, _, _)
ApplyCommands(gs, cmds, i) ==
    IF i > Len(cmds) THEN gs
    ELSE ApplyCommands(ApplyCommand(gs, cmds[i]), cmds, i + 1)

RECURSIVE PlayFrom(_, _)
\* the hook's state after the turns of PLAY from turn n on, played from st;
\* each turn is computed before the next one is entered
PlayFrom(n, st) ==
    IF n > Len(PLAY) THEN st
    ELSE LET next == nextTurnCall(ApplyCommands(st.gameState, PLAY[n], 1),
                                  st.stateHistory)
         IN IF next.gameState.turn > st.gameState.turn
            THEN PlayFrom(n + 1, next)
            ELSE next

\* the hook's state after the whole of PLAY
Played == PlayFrom(1, [gameState |-> createInitialGameState, stateHistory |-> <<>>])

\* the last turn of the played game is about to be played
InitEnd ==
    /\ routes = ROUTES
    /\ reached = <<>>
    /\ SideIdle
    /\ heap = <<>>
    /\ pushed = <<>>
    /\ gameState = Played.gameState
    /\ stateHistory = Played.stateHistory
    /\ lastOp = "nextTurn"
    /\ currentShip \in ShipIds
    /\ start = StartAt(gameState, stateHistory)

LogBudget(gs) == gs.logs - start.logs < MaxLogs

\* A command whose updater takes an early return hands back the state it was
\* given: nothing changes, which is a stuttering step.  Each action below is
\* therefore enabled exactly when its updater reaches the update.

Load(shipId, color, quantity) ==
    /\ LogBudget(gameState)
    /\ loadOutcome(gameState, shipId, color, quantity) = "ok"
    /\ gameState' = loadCargo(gameState, shipId, color, quantity)
    /\ lastOp' = "load"
    /\ UNCHANGED <<stateHistory, currentShip, start, routes, reached, heapVars, sideVars>>

Return(shipId, color) ==
    /\ returnOutcome(gameState, shipId, color) = "ok"
    /\ gameState' = returnCargo(gameState, shipId, color)
    /\ lastOp' = "return"
    /\ UNCHANGED <<stateHistory, currentShip, start, routes, reached, heapVars, sideVars>>

Unload(shipId) ==
    /\ unloadOutcome(gameState, shipId) = "ok"
    /\ gameState' = unloadCargo(gameState, shipId)
    /\ lastOp' = "unload"
    /\ UNCHANGED <<stateHistory, currentShip, start, routes, reached, heapVars, sideVars>>

Sail(shipId, destination) ==
    /\ LogBudget(gameState)
    /\ sailOutcome(gameState, shipId, destination) = "ok"
    /\ gameState' = sail(gameState, shipId, destination)
    /\ lastOp' = "sail"
    /\ UNCHANGED <<stateHistory, currentShip, start, routes, reached, heapVars, sideVars>>

\* the snapshot is pushed even when the updater returns the state unchanged
NextTurn ==
    /\ Len(stateHistory) - start.depth < MaxHistory
    /\ LET r == nextTurnCall(gameState, stateHistory)
       IN /\ gameState' = r.gameState
          /\ stateHistory' = r.stateHistory
    /\ lastOp' = "nextTurn"
    /\ UNCHANGED <<currentShip, start, routes, reached, heapVars, sideVars>>

Undo ==
    /\ Len(stateHistory) > start.depth
    /\ LogBudget(stateHistory[Len(stateHistory)])
    /\ LET r == undoTurn(gameState, stateHistory)
       IN /\ gameState' = r.gameState
          /\ stateHistory' = r.stateHistory
    /\ lastOp' = "undo"
    /\ UNCHANGED <<currentShip, start, routes, reached, heapVars, sideVars>>

Reset ==
    /\ gameState' = resetGame.gameState
    /\ stateHistory' = resetGame.stateHistory
    /\ lastOp' = "reset"
    /\ start' = StartAt(resetGame.gameState, resetGame.stateHistory)
    /\ UNCHANGED <<currentShip, routes, reached, heapVars, sideVars>>

SupplyBoost(portId) ==
    /\ LogBudget(gameState)
    /\ supplyBoostOutcome(gameState, portId) = "ok"
    /\ gameState' = useSupplyBoost(gameState, portId)
    /\ lastOp' = "supplyBoost"
    /\ UNCHANGED <<stateHistory, currentShip, start, routes, reached, heapVars, sideVars>>

DemandFreeze ==
    /\ LogBudget(gameState)
    /\ demandFreezeOutcome(gameState) = "ok"
    /\ gameState' = useDemandFreeze(gameState)
    /\ lastOp' = "demandFreeze"
    /\ UNCHANGED <<stateHistory, currentShip, start, routes, reached, heapVars, sideVars>>

\* the teleport is not counted against the log budget: it is spent after one
\* use and comes back only with an undo, which is counted
Teleport(shipId, destPortId) ==
    /\ teleportOutcome(gameState, shipId, destPortId) = "ok"
    /\ gameState' = useTeleport(gameState, shipId, destPortId)
    /\ lastOp' = "teleport"
    /\ UNCHANGED <<stateHistory, currentShip, start, routes, reached, heapVars, sideVars>>

Next ==
    \/ \E c \in ColorSet, q \in LoadQtys : Load(currentShip, c, q)
    \/ \E c \in ColorSet : Return(currentShip, c)
    \/ Unload(currentShip)
    \/ \E d \in InputPorts : Sail(currentShip, d)
    \/ NextTurn
    \/ Undo
    \/ Reset
    \/ \E p \in InputPorts : SupplyBoost(p)
    \/ DemandFreeze
    \/ \E d \in InputPorts : Teleport(currentShip, d)

Spec == Init /\ [][Next]_vars

SpecLate == InitLate /\ [][Next]_vars

SpecEnd == InitEnd /\ [][Next]_vars

(***************************************************************************)
(* The reachability query on its own: the route list is an input, drawn     *)
(* from every list of up to MaxRoutes routes among GraphPorts (both         *)
(* orientations, repeated routes, ports left without a route) and the       *)
(* game's ROUTES.  A behaviour asks one query: a query reads nothing that   *)
(* a query writes.                                                          *)
(***************************************************************************)
GraphPorts == {"TKO", "SAP", "MYZ", "KYT"}

\* longest route list drawn
MaxRoutes == 3

\* largest maxEdges asked
MaxEdges == 3

RoutePairs == {r \in GraphPorts \X GraphPorts : r[1] # r[2]}

RouteLists == UNION {[1..k -> RoutePairs] : k \in 0..MaxRoutes} \cup {ROUTES}

InitGraph ==
    /\ routes \in RouteLists
    /\ reached = <<>>
    /\ SideIdle
    /\ heap = <<>>
    /\ pushed = <<>>
    /\ gameState = createInitialGameState
    /\ stateHistory = <<>>
    /\ lastOp = "init"
    /\ currentShip = SHIP_IDS[1]
    /\ start = StartAt(gameState, stateHistory)

Reach(portId, maxEdges) ==
    /\ lastOp = "init"
    /\ reached' = Reachable(routes, portId, maxEdges)
    /\ lastOp' = "reach"
    /\ UNCHANGED <<gameState, stateHistory, currentShip, start, routes, heapVars, sideVars>>

NextGraph == \E p \in GraphPorts, n \in 0..MaxEdges : Reach(p, n)

SpecGraph == InitGraph /\ [][NextGraph]_vars

(***************************************************************************)
(* The object store.  In the source a state is a graph of objects, and two  *)
(* states may share some: "{...prev, ships: newShips}" keeps prev's other   *)
(* objects, "prev.ships.map" keeps the ships it does not replace and        *)
(* "[...s.cargo]" keeps the entries of the cargo.  The only objects written  *)
(* while another state can hold them are the cargo entries                  *)
(* (existingCargo.quantity += quantity in loadCargo, -= 1 in returnCargo);   *)
(* every other write goes to an object made in the same updater.  So here    *)
(* the cargo entries live in heap, a ship's cargo is the sequence of their   *)
(* addresses, and the rest of a state is kept by value.                      *)
(* pushed records each snapshot's value when it was pushed.                  *)
(* The store is kept as the garbage collector leaves it: objects no state    *)
(* holds are dropped, and the addresses are numbered in the order in which   *)
(* the snapshots and then the current state hold them.                       *)
(***************************************************************************)
\* the value of a state whose cargoes are addresses into h
Deref(h, gs) ==
    [gs EXCEPT !.ships =
        [s \in ShipIds |->
           [gs.ships[s] EXCEPT !.cargo =
               [i \in DOMAIN gs.ships[s].cargo |-> h[gs.ships[s].cargo[i]]]]]]

\* after with every cargo replaced by the addresses gs holds for it: the
\* objects a spread or a map hands on unchanged
Rebind(after, gs) ==
    [after EXCEPT !.ships =
        [s \in ShipIds |-> [after.ships[s] EXCEPT !.cargo = gs.ships[s].cargo]]]

\* JSON.parse(JSON.stringify(obj)) returning the object it was given
deepCopy_SameObject(h, gs, i) == [heap |-> h, state |-> gs]

RECURSIVE deepCopy(_, _, _)
\* JSON.parse(JSON.stringify(obj)): every entry of every cargo, from ship i
\* on, is a new object with the same content
deepCopy(h, gs, i) ==
    IF i > Len(SHIP_IDS) THEN [heap |-> h, state |-> gs]
    ELSE LET refs == gs.ships[SHIP_IDS[i]].cargo
         IN deepCopy(h \o [k \in DOMAIN refs |-> h[refs[k]]],
                     [gs EXCEPT !.ships[SHIP_IDS[i]].cargo =
                         [k \in DOMAIN refs |-> Len(h) + k]],
                     i + 1)

RECURSIVE FilterRefs(_, _)
\* refs.filter(keep), keep given as the set of addresses to keep
FilterRefs(refs, keep) ==
    IF refs = <<>> THEN <<>>
    ELSE IF Head(refs) \in keep
         THEN <<Head(refs)>> \o FilterRefs(Tail(refs), keep)
         ELSE FilterRefs(Tail(refs), keep)

\* loadCargo on the store: an entry of the color already aboard is written
\* in place, a new color gets a new entry
heapLoadCargo(h, gs, shipId, color, quantity) ==
    LET prev == Deref(h, gs)
        refs == gs.ships[shipId].cargo
        k == FindCargo(prev.ships[shipId].cargo, color)
        after == Rebind(loadCargo(prev, shipId, color, quantity), gs)
    IN IF loadOutcome(prev, shipId, color, quantity) # "ok"
       THEN [heap |-> h, state |-> gs]
       ELSE IF k # 0
       THEN [heap |-> [h EXCEPT ![refs[k]].quantity = @ + quantity],
             state |-> after]
       ELSE [heap |-> Append(h, [color |-> color, quantity |-> quantity]),
             state |-> [after EXCEPT !.ships[shipId].cargo =
                                         Append(refs, Len(h) + 1)]]

\* returnCargo on the store: the entry is written in place, and filtered
\* out of the new array once it is empty
heapReturnCargo(h, gs, shipId, color) ==
    LET prev == Deref(h, gs)
        refs == gs.ships[shipId].cargo
        k == FindCargo(prev.ships[shipId].cargo, color)
        written == [h EXCEPT ![refs[k]].quantity = @ - 1]
        after == Rebind(returnCargo(prev, shipId, color), gs)
    IN IF returnOutcome(prev, shipId, color) # "ok"
       THEN [heap |-> h, state |-> gs]
       ELSE [heap |-> written,
             state |-> [after EXCEPT !.ships[shipId].cargo =
                           IF written[refs[k]].quantity <= 0
                           THEN FilterRefs(refs, {a \in DOMAIN written :
                                                     written[a].quantity > 0})
                           ELSE refs]]

\* the entries a filter by color keeps
KeepColors(h, refs, cargo) ==
    FilterRefs(refs, {a \in DOMAIN h : h[a].color \in CargoColors(cargo)})

\* unloadCargo on the store: s.cargo.filter keeps the other entries
heapUnloadCargo(h, gs, shipId) ==
    LET prev == Deref(h, gs)
        after == unloadCargo(prev, shipId)
    IN [heap |-> h,
        state |-> [Rebind(after, gs) EXCEPT !.ships[shipId].cargo =
                      KeepColors(h, gs.ships[shipId].cargo,
                                 after.ships[shipId].cargo)]]

\* nextTurn on the store: the snapshot pushed is a deep copy of the rendered
\* state; the updater returns prev itself in a finished game and otherwise
\* works on a deep copy of it, where an arriving ship's cargo is filtered
heapNextTurnCall(h, gs, history) ==
    LET snapshot == deepCopy(h, gs, 1)
        prev == Deref(snapshot.heap, gs)
        newState == deepCopy(snapshot.heap, gs, 1)
        after == nextTurn(prev)
    IN IF prev.status # "playing"
       THEN [heap |-> snapshot.heap, gameState |-> gs,
             stateHistory |-> Append(history, snapshot.state)]
       ELSE [heap |-> newState.heap,
             gameState |->
                 [after EXCEPT !.ships =
                     [s \in ShipIds |->
                        [after.ships[s] EXCEPT !.cargo =
                            KeepColors(newState.heap, newState.state.ships[s].cargo,
                                       after.ships[s].cargo)]]],
             stateHistory |-> Append(history, snapshot.state)]

\* undoTurn on the store: {...previousState, logs} keeps the popped
\* snapshot's objects
heapUndoTurn(h, gs, history) ==
    IF Len(history) = 0 THEN [heap |-> h, gameState |-> gs, stateHistory |-> history]
    ELSE [heap |-> h,
          gameState |-> [history[Len(history)] EXCEPT !.logs = @ + 1],
          stateHistory |-> SubSeq(history, 1, Len(history) - 1)]

RECURSIVE AllRefs(_, _)
\* the addresses the cargoes of a state hold, ship after ship from ship i on
AllRefs(gs, i) ==
    IF i > Len(SHIP_IDS) THEN <<>>
    ELSE gs.ships[SHIP_IDS[i]].cargo \o AllRefs(gs, i + 1)

RECURSIVE HistoryRefs(_, _)
HistoryRefs(history, i) ==
    IF i > Len(history) THEN <<>>
    ELSE AllRefs(history[i], 1) \o HistoryRefs(history, i + 1)

RECURSIVE FirstOccurrences(_)
FirstOccurrences(seq) ==
    IF seq = <<>> THEN <<>>
    ELSE LET front == FirstOccurrences(SubSeq(seq, 1, Len(seq) - 1))
             last == seq[Len(seq)]
         IN IF \E i \in DOMAIN front : front[i] = last THEN front
            ELSE Append(front, last)

\* a state with every address a replaced by its place in order
Renumber(gs, order) ==
    [gs EXCEPT !.ships =
        [s \in ShipIds |->
           [gs.ships[s] EXCEPT !.cargo =
               [i \in DOMAIN gs.ships[s].cargo |->
                  CHOOSE n \in DOMAIN order : order[n] = gs.ships[s].cargo[i]]]]]

\* the store after garbage collection
Collect(h, gs, history) ==
    CHOOSE c \in
        {[heap |-> [n \in DOMAIN order |-> h[order[n]]],
          gameState |-> Renumber(gs, order),
          stateHistory |-> [i \in DOMAIN history |-> Renumber(history[i], order)]] :
         order \in {FirstOccurrences(HistoryRefs(history, 1) \o AllRefs(gs, 1))}} :
        TRUE

InitHeap ==
    /\ routes = ROUTES
    /\ reached = <<>>
    /\ SideIdle
    /\ heap = <<>>
    /\ pushed = <<>>
    /\ gameState = createInitialGameState
    /\ stateHistory = <<>>
    /\ lastOp = "init"
    /\ currentShip \in ShipIds
    /\ start = StartAt(gameState, stateHistory)

HeapLoad(shipId, color, quantity) ==
    /\ LogBudget(gameState)
    /\ loadOutcome(Deref(heap, gameState), shipId, color, quantity) = "ok"
    /\ \E r \in {heapLoadCargo(heap, gameState, shipId, color, quantity)} :
       \E c \in {Collect(r.heap, r.state, stateHistory)} :
           /\ heap' = c.heap
           /\ gameState' = c.gameState
           /\ stateHistory' = c.stateHistory
    /\ lastOp' = "load"
    /\ UNCHANGED <<currentShip, start, routes, reached, pushed, sideVars>>

HeapReturn(shipId, color) ==
    /\ returnOutcome(Deref(heap, gameState), shipId, color) = "ok"
    /\ \E r \in {heapReturnCargo(heap, gameState, shipId, color)} :
       \E c \in {Collect(r.heap, r.state, stateHistory)} :
           /\ heap' = c.heap
           /\ gameState' = c.gameState
           /\ stateHistory' = c.stateHistory
    /\ lastOp' = "return"
    /\ UNCHANGED <<currentShip, start, routes, reached, pushed, sideVars>>

HeapUnload(shipId) ==
    /\ unloadOutcome(Deref(heap, gameState), shipId) = "ok"
    /\ \E r \in {heapUnloadCargo(heap, gameState, shipId)} :
       \E c \in {Collect(r.heap, r.state, stateHistory)} :
           /\ heap' = c.heap
           /\ gameState' = c.gameState
           /\ stateHistory' = c.stateHistory
    /\ lastOp' = "unload"
    /\ UNCHANGED <<currentShip, start, routes, reached, pushed, sideVars>>

\* sail and the three items hand every cargo on as it is
HeapSail(shipId, destination) ==
    /\ LogBudget(gameState)
    /\ sailOutcome(gameState, shipId, destination) = "ok"
    /\ gameState' = Rebind(sail(Deref(heap, gameState), shipId, destination), gameState)
    /\ lastOp' = "sail"
    /\ UNCHANGED <<stateHistory, currentShip, start, routes, reached, heapVars, sideVars>>

HeapNextTurn ==
    /\ Len(stateHistory) - start.depth < MaxHistory
    /\ \E r \in {heapNextTurnCall(heap, gameState, stateHistory)} :
       \E c \in {Collect(r.heap, r.gameState, r.stateHistory)} :
           /\ heap' = c.heap
           /\ gameState' = c.gameState
           /\ stateHistory' = c.stateHistory
    /\ pushed' = Append(pushed, Deref(heap, gameState))
    /\ lastOp' = "nextTurn"
    /\ UNCHANGED <<currentShip, start, routes, reached, sideVars>>

HeapUndo ==
    /\ Len(stateHistory) > start.depth
    /\ LogBudget(stateHistory[Len(stateHistory)])
    /\ \E r \in {heapUndoTurn(heap, gameState, stateHistory)} :
       \E c \in {Collect(r.heap, r.gameState, r.stateHistory)} :
           /\ heap' = c.heap
           /\ gameState' = c.gameState
           /\ stateHistory' = c.stateHistory
    /\ pushed' = SubSeq(pushed, 1, Len(pushed) - 1)
    /\ lastOp' = "undo"
    /\ UNCHANGED <<currentShip, start, routes, reached, sideVars>>

\* after a reset no state holds an object of the store
HeapReset ==
    /\ gameState' = resetGame.gameState
    /\ stateHistory' = resetGame.stateHistory
    /\ heap' = <<>>
    /\ pushed' = <<>>
    /\ lastOp' = "reset"
    /\ start' = StartAt(resetGame.gameState, resetGame.stateHistory)
    /\ UNCHANGED <<currentShip, routes, reached, sideVars>>

HeapSupplyBoost(portId) ==
    /\ LogBudget(gameState)
    /\ supplyBoostOutcome(gameState, portId) = "ok"
    /\ gameState' = Rebind(useSupplyBoost(Deref(heap, gameState), portId), gameState)
    /\ lastOp' = "supplyBoost"
    /\ UNCHANGED <<stateHistory, currentShip, start, routes, reached, heapVars, sideVars>>

HeapDemandFreeze ==
    /\ LogBudget(gameState)
    /\ demandFreezeOutcome(gameState) = "ok"
    /\ gameState' = Rebind(useDemandFreeze(Deref(heap, gameState)), gameState)
    /\ lastOp' = "demandFreeze"
    /\ UNCHANGED <<stateHistory, currentShip, start, routes, reached, heapVars, sideVars>>

HeapTeleport(shipId, destPortId) ==
    /\ teleportOutcome(gameState, shipId, destPortId) = "ok"
    /\ gameState' =
           Rebind(useTeleport(Deref(heap, gameState), shipId, destPortId), gameState)
    /\ lastOp' = "teleport"
    /\ UNCHANGED <<stateHistory, currentShip, start, routes, reached, heapVars, sideVars>>

NextHeap ==
    \/ \E c \in ColorSet, q \in LoadQtys : HeapLoad(currentShip, c, q)
    \/ \E c \in ColorSet : HeapReturn(currentShip, c)
    \/ HeapUnload(currentShip)
    \/ \E d \in InputPorts : HeapSail(currentShip, d)
    \/ HeapNextTurn
    \/ HeapUndo
    \/ HeapReset
    \/ \E p \in InputPorts : HeapSupplyBoost(p)
    \/ HeapDemandFreeze
    \/ \E d \in InputPorts : HeapTeleport(currentShip, d)

SpecHeap == InitHeap /\ [][NextHeap]_vars

(***************************************************************************)
(* generateRandomSupplyPerTurn (config/gameConfig.ts): the production table *)
(* of the random mode.  The table is kept in half units like the stocks, so *)
(* delta (0.5) is 1 and the limit 1.0 is 2.  The function runs from the      *)
(* copy of the fixed table (pc = "adjust") through the three fixed           *)
(* adjustments into the swap loop (pc = "loop") and returns (pc = "done");   *)
(* attempt is the loop counter i.  Every Math.random() draw is a choice.     *)
(* The loop limits are the source's 20000 and 5000 cut down to maxAttempts   *)
(* and targetSwaps.                                                          *)
(***************************************************************************)
SUPPLY_PORT_IDS ==
    <<"OKN", "RUS", "KOR", "TAW", "VNM", "PHL", "HKG", "GUM", "PLW", "IDN",
      "PNG", "OGS", "MTR", "SGP", "SKH", "AUS", "BGD">>

\* the ports of SUPPLY_PORT_IDS that have a supplyPerTurn
validPortIds ==
    {SUPPLY_PORT_IDS[k] : k \in {n \in DOMAIN SUPPLY_PORT_IDS :
                                   INITIAL_PORTS[SUPPLY_PORT_IDS[n]].type = "supply"}}

countColors(supply) == Cardinality({c \in ColorSet : supply[c] > 0})

delta == 1

\* result after the first loop: a copy of each port's supplyPerTurn
CopiedSupply == [p \in validPortIds |-> INITIAL_PORTS[p].supplyPerTurn]

\* the fixed adjustments of the random mode
AdjustSupply(res) ==
    [p \in DOMAIN res |->
        CASE p = "SGP" -> H(0, 0, 1, 0)
          [] p = "PNG" -> H(0, 0, 1, 0)
          [] p = "TAW" -> H(2, 0, 0, 0)
          [] OTHER -> res[p]]

canSwapPositive(res, p1, p2, c1, c2) == res[p1][c2] >= delta /\ res[p2][c1] >= delta

canSwapNegative(res, p1, p2, c1, c2) == res[p1][c1] >= delta /\ res[p2][c2] >= delta

\* a swap that does not take from the first port what it adds to it
applySwap_OneSided(res, p1, p2, c1, c2, direction) ==
    IF direction = "positive"
    THEN [res EXCEPT ![p1][c1] = @ + delta,
                     ![p2][c1] = @ - delta, ![p2][c2] = @ + delta]
    ELSE [res EXCEPT ![p1][c2] = @ + delta,
                     ![p2][c1] = @ + delta, ![p2][c2] = @ - delta]

\* the four assignments of one direction
applySwap(res, p1, p2, c1, c2, direction) ==
    IF direction = "positive"
    THEN [res EXCEPT ![p1][c1] = @ + delta, ![p1][c2] = @ - delta,
                     ![p2][c1] = @ - delta, ![p2][c2] = @ + delta]
    ELSE [res EXCEPT ![p1][c1] = @ - delta, ![p1][c2] = @ + delta,
                     ![p2][c1] = @ + delta, ![p2][c2] = @ - delta]

\* checkConstraints without the count of colors
checkConstraints_AnyColors(res, p1, p2, c1, c2, direction) ==
    \A after \in {applySwap(res, p1, p2, c1, c2, direction)} :
        \A c \in ColorSet : after[p1][c] <= 2 /\ after[p2][c] <= 2

checkConstraints(res, p1, p2, c1, c2, direction) ==
    \A after \in {applySwap(res, p1, p2, c1, c2, direction)} :
        /\ countColors(after[p1]) <= 2 /\ countColors(after[p2]) <= 2
        /\ \A c \in ColorSet : after[p1][c] <= 2 /\ after[p2][c] <= 2

canPositiveWithLimit(res, p1, p2, c1, c2) ==
    canSwapPositive(res, p1, p2, c1, c2)
        /\ checkConstraints(res, p1, p2, c1, c2, "positive")

canNegativeWithLimit(res, p1, p2, c1, c2) ==
    canSwapNegative(res, p1, p2, c1, c2)
        /\ checkConstraints(res, p1, p2, c1, c2, "negative")

\* the direction one pass of the loop applies, "skip" for none; coin is the
\* outcome of "Math.random() < 0.5"
swapDirection(res, p1, p2, c1, c2, coin) ==
    CASE canPositiveWithLimit(res, p1, p2, c1, c2)
             /\ canNegativeWithLimit(res, p1, p2, c1, c2) ->
                 IF coin THEN "positive" ELSE "negative"
      [] canPositiveWithLimit(res, p1, p2, c1, c2) -> "positive"
      [] canNegativeWithLimit(res, p1, p2, c1, c2) -> "negative"
      [] OTHER -> "skip"

GameIdle ==
    /\ routes = ROUTES
    /\ reached = <<>>
    /\ heap = <<>>
    /\ pushed = <<>>
    /\ gameState = createInitialGameState
    /\ stateHistory = <<>>
    /\ lastOp = "init"
    /\ currentShip = SHIP_IDS[1]
    /\ start = StartAt(gameState, stateHistory)

gameVars == <<gameState, stateHistory, lastOp, currentShip, start, routes,
              reached, heapVars>>

InitRandom ==
    /\ GameIdle
    /\ clock = 0
    /\ lastLoadTimeRef = 0
    /\ lastCall = <<>>
    /\ result = CopiedSupply
    /\ attempt = 0
    /\ successfulSwaps = 0
    /\ pc = "adjust"

RndAdjust ==
    /\ pc = "adjust"
    /\ result' = AdjustSupply(result)
    /\ pc' = IF Cardinality(validPortIds) < 2 THEN "done" ELSE "loop"
    /\ UNCHANGED <<attempt, successfulSwaps, gameVars, clockVars>>

\* one pass of the loop, on the draws p1 # p2, c1 # c2 and coin
RndAttempt(p1, p2, c1, c2, coin) ==
    /\ pc = "loop"
    /\ attempt < maxAttempts /\ successfulSwaps < targetSwaps
    /\ p1 # p2 /\ c1 # c2
    /\ \E direction \in {swapDirection(result, p1, p2, c1, c2, coin)} :
           IF direction = "skip"
           THEN UNCHANGED <<result, successfulSwaps>>
           ELSE /\ result' = applySwap(result, p1, p2, c1, c2, direction)
                /\ successfulSwaps' = successfulSwaps + 1
    /\ attempt' = attempt + 1
    /\ UNCHANGED <<pc, gameVars, clockVars>>

RndReturn ==
    /\ pc = "loop"
    /\ ~(attempt < maxAttempts /\ successfulSwaps < targetSwaps)
    /\ pc' = "done"
    /\ UNCHANGED <<result, attempt, successfulSwaps, gameVars, clockVars>>

NextRandom ==
    \/ RndAdjust
    \/ \E p1, p2 \in validPortIds, c1, c2 \in ColorSet, coin \in BOOLEAN :
           RndAttempt(p1, p2, c1, c2, coin)
    \/ RndReturn

SpecRandom == InitRandom /\ [][NextRandom]_vars

(***************************************************************************)
(* The load cooldown.  loadCargo and returnCargo read Date.now() and compare *)
(* it with lastLoadTimeRef, one cell for every ship and color and for both   *)
(* functions, before they queue their state updater.  clock is Date.now()    *)
(* in milliseconds; the player's calls come at any clock reading, several    *)
(* of them within the same millisecond or TickMs apart.  lastCall records    *)
(* the last call, whether the cooldown suppressed it, and the last call      *)
(* accepted before it.                                                       *)
(***************************************************************************)
LoadCooldown == 100

ReturnCooldown == 50

NoCall == [op |-> "none", shipId |-> Undefined, color |-> Undefined, at |-> 0]

\* the last call the cooldown has let through
Accepted(lc) == IF lc.suppressed \/ lc.call.op = "none" THEN lc.previous ELSE lc.call

InitCooldown ==
    /\ routes = ROUTES
    /\ reached = <<>>
    /\ heap = <<>>
    /\ pushed = <<>>
    /\ gameState = createInitialGameState
    /\ stateHistory = <<>>
    /\ lastOp = "init"
    /\ currentShip \in ShipIds
    /\ start = StartAt(gameState, stateHistory)
    /\ result = <<>>
    /\ attempt = 0
    /\ successfulSwaps = 0
    /\ pc = "idle"
    /\ clock = StartClock
    /\ lastLoadTimeRef = 0
    /\ lastCall = [call |-> NoCall, suppressed |-> FALSE, previous |-> NoCall]

Tick ==
    /\ clock + TickMs <= MaxClock
    /\ clock' = clock + TickMs
    /\ UNCHANGED <<gameVars, rndVars, lastLoadTimeRef, lastCall>>

CoolLoad(shipId, color, quantity) ==
    /\ LogBudget(gameState)
    /\ IF clock - lastLoadTimeRef < LoadCooldown
       THEN /\ lastCall' = [call |-> [op |-> "load", shipId |-> shipId,
                                      color |-> color, at |-> clock],
                            suppressed |-> TRUE,
                            previous |-> Accepted(lastCall)]
            /\ UNCHANGED <<gameState, lastLoadTimeRef>>
       ELSE /\ lastLoadTimeRef' = clock
            /\ gameState' = loadCargo(gameState, shipId, color, quantity)
            /\ lastCall' = [call |-> [op |-> "load", shipId |-> shipId,
                                      color |-> color, at |-> clock],
                            suppressed |-> FALSE,
                            previous |-> Accepted(lastCall)]
    /\ lastOp' = "load"
    /\ UNCHANGED <<stateHistory, currentShip, start, routes, reached, heapVars,
                   rndVars, clock>>

CoolReturn(shipId, color) ==
    /\ LogBudget(gameState)
    /\ IF clock - lastLoadTimeRef < ReturnCooldown
       THEN /\ lastCall' = [call |-> [op |-> "return", shipId |-> shipId,
                                      color |-> color, at |-> clock],
                            suppressed |-> TRUE,
                            previous |-> Accepted(lastCall)]
            /\ UNCHANGED <<gameState, lastLoadTimeRef>>
       ELSE /\ lastLoadTimeRef' = clock
            /\ gameState' = returnCargo(gameState, shipId, color)
            /\ lastCall' = [call |-> [op |-> "return", shipId |-> shipId,
                                      color |-> color, at |-> clock],
                            suppressed |-> FALSE,
                            previous |-> Accepted(lastCall)]
    /\ lastOp' = "return"
    /\ UNCHANGED <<stateHistory, currentShip, start, routes, reached, heapVars,
                   rndVars, clock>>

NextCooldown ==
    \/ Tick
    \/ \E c \in ColorSet : CoolLoad(currentShip, c, 1)
    \/ \E c \in ColorSet : CoolReturn(currentShip, c)
    \/ \E d \in InputPorts : Teleport(currentShip, d)

SpecCooldown == InitCooldown /\ [][NextCooldown]_vars

(***************************************************************************)
(* The end-of-turn handler of the Game component (handleNextTurn).  The      *)
(* player books destinations (plannedDestinations, here the entries of       *)
(* planned in Object.entries order); the handler calls sail for every        *)
(* booked ship that is docked in the rendered state and then nextTurn, all   *)
(* in one event.  sail and nextTurn read the rendered state they captured    *)
(* (captured) for their tests and for the snapshot; their updaters are       *)
(* queued and run in order, each on the state the one before it returned.    *)
(***************************************************************************)
\* the state updater sail queues; it has no test of its own
sailUpdater(prev, shipId, destination) ==
    [prev EXCEPT
        !.ships[shipId] =
            [@ EXCEPT !.status = "sailing",
                      !.sailingFrom = prev.ships[shipId].currentPort,
                      !.sailingTo = destination,
                      !.currentPort = Undefined,
                      !.remainingTurns = 1,
                      !.totalTurns = 1],
        !.logs = @ + 1]

\* sail as called from a handler: tests on the captured state, update queued
sailCall(captured, prev, shipId, destination) ==
    IF sailOutcome(captured, shipId, destination) # "ok" THEN prev
    ELSE sailUpdater(prev, shipId, destination)

RECURSIVE SailPlanned(_, _, _, _)
\* Object.entries(plannedDestinations).forEach from entry k on
SailPlanned(captured, prev, planned, k) ==
    IF k > Len(planned) THEN prev
    ELSE SailPlanned(captured,
                     IF captured.ships[planned[k][1]].status = "docked"
                     THEN sailCall(captured, prev, planned[k][1], planned[k][2])
                     ELSE prev,
                     planned, k + 1)

\* the hook's two cells after the handler's updaters have run; appliedTo is
\* the state the nextTurn updater was given as prev
handleNextTurn(captured, history, planned) ==
    CHOOSE r \in {[gameState |-> nextTurn(appliedTo),
                   stateHistory |-> Append(history, captured),
                   appliedTo |-> appliedTo] :
                  appliedTo \in {SailPlanned(captured, captured, planned, 1)}} : TRUE

\* the bookings drawn: none, or one for the ship the player operates
PlannedInputs ==
    {<<>>} \cup {<< <<currentShip, d>> >> : d \in InputPorts}

HandleNextTurn(planned) ==
    /\ Len(stateHistory) - start.depth < MaxHistory
    /\ LogBudget(gameState)
    /\ \E r \in {handleNextTurn(gameState, stateHistory, planned)} :
           /\ gameState' = r.gameState
           /\ stateHistory' = r.stateHistory
    /\ lastOp' = "nextTurn"
    /\ UNCHANGED <<currentShip, start, routes, reached, heapVars, sideVars>>

NextHandler ==
    \/ \E c \in ColorSet, q \in LoadQtys : Load(currentShip, c, q)
    \/ \E c \in ColorSet : Return(currentShip, c)
    \/ Unload(currentShip)
    \/ HandleNextTurn(<<>>)
    \/ \E d \in InputPorts : HandleNextTurn(<< <<currentShip, d>> >>)
    \/ Undo
    \/ Reset
    \/ \E p \in InputPorts : SupplyBoost(p)
    \/ DemandFreeze
    \/ \E d \in InputPorts : Teleport(currentShip, d)

SpecHandler == Init /\ [][NextHandler]_vars

(***************************************************************************)
(* Properties.                                                              *)
(***************************************************************************)
SupplyPortIds == {p \in PortIds : INITIAL_PORTS[p].type = "supply"}

Docked(gs, shipId) == gs.ships[shipId].status = "docked"

\* units of one color aboard
Aboard(cargo, color) ==
    SumQuantity(FilterCargo(cargo, {e \in EntriesOf(cargo) : e.color = color}))

\* C1: in every reachable state every ship's total cargo is at most its
\* capacity and the number of distinct colors aboard is at most its maxColors.
C1_CapacityInvariant ==
    \A s \in ShipIds :
        /\ SumQuantity(gameState.ships[s].cargo) <= SHIP_CLASS[s].capacity
        /\ Cardinality(CargoColors(gameState.ships[s].cargo)) <= SHIP_CLASS[s].maxColors

\* a load has been applied and the ship now stands where one further load is
\* refused for capacity and another for the color limit
C1_Witness ==
    /\ lastOp = "load"
    /\ \E s \in ShipIds, c1, c2 \in ColorSet :
           /\ loadOutcome(gameState, s, c1, MaxQty) = "capacity"
           /\ loadOutcome(gameState, s, c2, 1) = "colors"

\* C2: in every reachable state every supply port's stock of every color is
\* at least 0 and at most the port's stock cap.  The cap is taken in its most
\* generous reading, the larger of the limit the engine applies and the
\* port's entry in the table of the configuration: a stock above it is above
\* the cap in either reading.  Stocks are in half units.
C2_SupplyStockWithinCap ==
    \A p \in SupplyPortIds, c \in ColorSet :
        LET cap == IF SUPPLY_STOCK_LIMITS(p) > SUPPLY_STOCK_LIMIT
                   THEN SUPPLY_STOCK_LIMITS(p) ELSE SUPPLY_STOCK_LIMIT
        IN /\ gameState.ports[p][c] >= 0
           /\ gameState.ports[p][c] <= 2 * cap

\* C3: in every reachable state whose status is not gameover every city
\* inventory is at least 0.
C3_NonNegativeUnlessGameover ==
    gameState.status # "gameover" =>
        \A i \in DOMAIN gameState.cityInventories :
            gameState.cityInventories[i].stock >= 0

\* the end of a turn has driven an inventory below zero
C3_Witness ==
    /\ lastOp = "nextTurn"
    /\ gameState.status = "gameover"
    /\ \E i \in DOMAIN gameState.cityInventories :
           gameState.cityInventories[i].stock < 0

RECURSIVE AdvanceTimes(_, _, _)
AdvanceTimes(k, gs, history) ==
    IF k = 0 THEN [gameState |-> gs, stateHistory |-> history]
    ELSE LET r == nextTurnCall(gs, history)
         IN AdvanceTimes(k - 1, r.gameState, r.stateHistory)

RECURSIVE UndoTimes(_, _, _)
UndoTimes(k, gs, history) ==
    IF k = 0 THEN [gameState |-> gs, stateHistory |-> history]
    ELSE LET r == undoTurn(gs, history)
         IN UndoTimes(k - 1, r.gameState, r.stateHistory)

\* k calls of nextTurn followed by k calls of undoTurn
RoundTrip(k) ==
    LET advanced == AdvanceTimes(k, gameState, stateHistory)
    IN UndoTimes(k, advanced.gameState, advanced.stateHistory)

\* largest k of the round trips checked
MaxRoundTrip == 3

C5_UsedItemIsNoOp ==
    /\ gameState.items["supplyBoost"].used =>
           \A p \in PortIds : useSupplyBoost(gameState, p) = gameState
    /\ gameState.items["demandFreeze"].used => useDemandFreeze(gameState) = gameState
    /\ gameState.items["teleport"].used =>
           \A s \in ShipIds, d \in PortIds : useTeleport(gameState, s, d) = gameState

\* all three items have been used
C5_Witness ==
    /\ lastOp \in {"supplyBoost", "demandFreeze", "teleport"}
    /\ \A i \in ItemIds : gameState.items[i].used

\* C6: once an item is marked used it is marked used in every later state,
\* whatever command other than reset is applied.
C6_UsedItemStaysUsed ==
    [][\A i \in ItemIds :
          gameState.items[i].used /\ lastOp' # "reset" => gameState'.items[i].used]_vars

\* C7: loadCargo leaves the game state unchanged whenever the ship is not
\* docked, or the whole units in stock are fewer than the quantity asked, or
\* the load would exceed the capacity, or the color is new to a ship that
\* already carries maxColors colors.
C7_RefusedLoadChangesNothing ==
    \A s \in ShipIds, c \in ColorSet, q \in 1..MaxQty :
        LET ship == gameState.ships[s]
            mustFail ==
                \/ ship.status # "docked"
                \/ /\ ship.status = "docked"
                   /\ \/ (gameState.ports[ship.currentPort][c] \div 2) < q
                      \/ SumQuantity(ship.cargo) + q > SHIP_CLASS[s].capacity
                      \/ /\ \A e \in EntriesOf(ship.cargo) : e.color # c
                         /\ Cardinality(CargoColors(ship.cargo))
                                >= SHIP_CLASS[s].maxColors
        IN mustFail => loadCargo(gameState, s, c, q) = gameState

\* a load has left half a unit in stock under a docked ship: the next load of
\* one unit must be refused
C7_Witness ==
    /\ lastOp = "load"
    /\ \E s \in ShipIds, c \in ColorSet :
           /\ Docked(gameState, s)
           /\ gameState.ports[gameState.ships[s].currentPort][c] = 1

RECURSIVE ReturnTimes(_, _, _, _)
ReturnTimes(k, gs, shipId, color) ==
    IF k = 0 THEN gs ELSE ReturnTimes(k - 1, returnCargo(gs, shipId, color), shipId, color)

C9_ReturnMovesOneUnit ==
    \A s \in ShipIds, c \in ColorSet :
        LET ship == gameState.ships[s]
            after == returnCargo(gameState, s, c)
        IN IF /\ ship.status = "docked"
              /\ ship.currentPort \in SupplyPortIds
              /\ \E e \in EntriesOf(ship.cargo) : e.color = c
           THEN /\ after.ports =
                       [gameState.ports EXCEPT ![ship.currentPort][c] = @ + 2]
                /\ Aboard(after.ships[s].cargo, c) = Aboard(ship.cargo, c) - 1
                /\ \A c2 \in ColorSet \ {c} :
                       Aboard(after.ships[s].cargo, c2) = Aboard(ship.cargo, c2)
                /\ \A e \in EntriesOf(after.ships[s].cargo) : e.quantity >= 1
                /\ [after EXCEPT !.ports = gameState.ports,
                                 !.ships[s].cargo = ship.cargo] = gameState
           ELSE after = gameState

\* a return has taken the last unit of a color off a ship at a port whose
\* stock of it was full
C9_Witness ==
    /\ lastOp = "return"
    /\ \E s \in ShipIds :
           /\ Docked(gameState, s)
           /\ gameState.ships[s].cargo = <<>>
           /\ \E c \in ColorSet :
                  gameState.ports[gameState.ships[s].currentPort][c]
                      > 2 * SUPPLY_STOCK_LIMIT

\* C10: unloadCargo for a ship docked at a demand port and carrying q units of
\* the port's color adds exactly q to that port's inventory and to the score
\* and removes the color from the ship.
C10_UnloadDelivers ==
    \A s \in ShipIds :
        LET ship == gameState.ships[s]
            after == unloadCargo(gameState, s)
        IN (/\ ship.status = "docked"
            /\ ship.currentPort \notin SupplyPortIds
            /\ Aboard(ship.cargo, INITIAL_PORTS[ship.currentPort].demandColor) > 0)
           => LET color == INITIAL_PORTS[ship.currentPort].demandColor
                  q == Aboard(ship.cargo, color)
              IN /\ \A i \in DOMAIN gameState.cityInventories :
                        after.cityInventories[i].stock =
                            gameState.cityInventories[i].stock
                              + (IF gameState.cityInventories[i].portId = ship.currentPort
                                 THEN q ELSE 0)
                 /\ after.score = gameState.score + q
                 /\ Aboard(after.ships[s].cargo, color) = 0
                 /\ \A e \in EntriesOf(after.ships[s].cargo) : e.color # color

\* an unload has delivered cargo
C10_Witness ==
    /\ lastOp = "unload"
    /\ gameState.score > 0

\* C11: unloadCargo leaves the ship's cargo of the other colors, the other
\* ships, the other inventories and the ports as they were, and changes
\* nothing at all when the ship is sailing, is at a supply port or carries
\* none of the port's color.
C11_UnloadFrame ==
    \A s \in ShipIds :
        LET ship == gameState.ships[s]
            after == unloadCargo(gameState, s)
            applies ==
                /\ ship.status = "docked"
                /\ ship.currentPort \notin SupplyPortIds
                /\ \E e \in EntriesOf(ship.cargo) :
                       e.color = INITIAL_PORTS[ship.currentPort].demandColor
        IN IF ~applies THEN after = gameState
           ELSE LET color == INITIAL_PORTS[ship.currentPort].demandColor
                IN /\ after.ships[s].cargo =
                          FilterCargo(ship.cargo,
                                      {e \in EntriesOf(ship.cargo) : e.color # color})
                   /\ after.ships[s] = [ship EXCEPT !.cargo = after.ships[s].cargo]
                   /\ \A t \in ShipIds \ {s} : after.ships[t] = gameState.ships[t]
                   /\ \A i \in DOMAIN gameState.cityInventories :
                          gameState.cityInventories[i].portId # ship.currentPort
                          => after.cityInventories[i] = gameState.cityInventories[i]
                   /\ after.ports = gameState.ports
                   /\ [after EXCEPT !.ships = gameState.ships,
                                    !.cityInventories = gameState.cityInventories,
                                    !.score = gameState.score,
                                    !.logs = gameState.logs] = gameState

\* an unload has left cargo of another color aboard
C11_Witness ==
    /\ lastOp = "unload"
    /\ gameState.ships[currentShip].cargo # <<>>
    /\ gameState.ships[currentShip].currentPort \notin SupplyPortIds

\* C12: when the demand phase of nextTurn drives an inventory below zero the
\* result has status gameover and no later phase has run: the turn, the
\* demand level, every ship, every port stock and the score are as before.
C12_GameoverStopsTheTurn ==
    LET after == nextTurn(gameState)
        drives ==
            /\ gameState.status = "playing"
            /\ ~gameState.demandFrozenThisTurn
            /\ \E i \in DOMAIN gameState.cityInventories :
                   gameState.cityInventories[i].stock
                     - getDemandForTurn(gameState.turn,
                                        gameState.cityInventories[i].portId) < 0
    IN drives =>
         /\ after.status = "gameover"
         /\ after.turn = gameState.turn
         /\ after.demandLevel = gameState.demandLevel
         /\ after.ships = gameState.ships
         /\ after.ports = gameState.ports
         /\ after.score = gameState.score

\* a turn has ended in gameover with the ship still at sea
C12_Witness ==
    /\ lastOp = "nextTurn"
    /\ gameState.status = "gameover"
    /\ gameState.ships[currentShip].status = "sailing"
    /\ gameState.ships[currentShip].remainingTurns = 1

\* C13: a successful sail sets remainingTurns to 1 whatever the distance, and
\* after one following nextTurn that does not end in gameover the ship is
\* docked at the destination with no sailing field left.  nextTurn is the
\* transition of a game being played (status playing); called in a finished
\* game it does nothing and the ship stays as sail left it.
C13_SailArrivesNextTurn ==
    \A s \in ShipIds, d \in PortIds :
        sailOutcome(gameState, s, d) = "ok" =>
            LET sailed == sail(gameState, s, d)
                after == nextTurn(sailed)
            IN /\ sailed.ships[s].status = "sailing"
               /\ sailed.ships[s].remainingTurns = 1
               /\ (gameState.status = "playing" /\ after.status # "gameover") =>
                      after.ships[s] =
                          [DockedAt(d) EXCEPT !.cargo = after.ships[s].cargo]
               /\ gameState.status # "playing" => after.ships[s] = sailed.ships[s]

\* the ship has arrived, one turn after it sailed, at a port three edges away
C13_Witness ==
    /\ lastOp = "nextTurn"
    /\ stateHistory # <<>>
    /\ LET before == stateHistory[Len(stateHistory)].ships[currentShip]
           now == gameState.ships[currentShip]
       IN /\ before.status = "sailing"
          /\ before.remainingTurns = 1
          /\ ~Includes(getReachablePorts(before.sailingFrom, 2), before.sailingTo)
          /\ now = [DockedAt(before.sailingTo) EXCEPT !.cargo = now.cargo]

\* C14: sail changes the state only if the ship is docked and the destination
\* is among the ports reachable from its port within its speed; otherwise
\* (ship at sea, destination too far, destination the current port) the state
\* is unchanged.
C14_RefusedSailChangesNothing ==
    \A s \in ShipIds, d \in PortIds :
        LET ship == gameState.ships[s]
            valid == /\ ship.status = "docked"
                     /\ d # ship.currentPort
                     /\ Includes(getReachablePorts(ship.currentPort,
                                                    SHIP_CLASS[s].speed), d)
        IN /\ ~valid => sail(gameState, s, d) = gameState
           /\ valid => sail(gameState, s, d) # gameState

\* the ship has left port: a further sail must be refused
C14_Witness ==
    /\ lastOp = "sail"
    /\ gameState.ships[currentShip].status = "sailing"
    /\ \E d \in PortIds :
           ~Includes(getReachablePorts(gameState.ships[currentShip].sailingFrom,
                                       SHIP_CLASS[currentShip].speed), d)

\* the ports a route list is about
PortsOf(rts) == GraphPorts \cup {rts[i][1] : i \in DOMAIN rts}
                           \cup {rts[i][2] : i \in DOMAIN rts}

Elements(array) == {array[i] : i \in DOMAIN array}

\* C15: for every route list, all ports A and B and every n, B is among the
\* ports reachable from A within n edges exactly if A is among those
\* reachable from B within n edges.
C15_ReachabilityIsSymmetric ==
    \A n \in 0..MaxEdges :
        \A from \in {[p \in PortsOf(routes) |-> Elements(Reachable(routes, p, n))]} :
            \A A \in PortsOf(routes), B \in PortsOf(routes) :
                (B \in from[A]) <=> (A \in from[B])

\* a query has returned three ports
C15_Witness ==
    /\ lastOp = "reach"
    /\ routes # ROUTES
    /\ Len(reached) >= 3

\* C16: the query returns exactly the ports whose shortest path from the
\* origin has between 1 and maxEdges edges: never the origin, no port twice,
\* whatever routes are repeated and whatever ports are cut off.
C16_ReachableIsShortestPathBall ==
    LET RECURSIVE Within(_, _)
        \* the ports joined to origin by a walk of at most n routes, either way
        Within(origin, n) ==
            IF n = 0 THEN {origin}
            ELSE UNION {near
                          \cup {routes[i][2] :
                                  i \in {j \in DOMAIN routes : routes[j][1] \in near}}
                          \cup {routes[i][1] :
                                  i \in {j \in DOMAIN routes : routes[j][2] \in near}} :
                        near \in {Within(origin, n - 1)}}
    IN
    \A o \in PortsOf(routes), n \in 0..MaxEdges :
        \A r \in {Reachable(routes, o, n)} :
            /\ Elements(r) = Within(o, n) \ {o}
            /\ Len(r) = Cardinality(Elements(r))
            /\ ~Includes(r, o)

\* a query has returned ports from a list with a repeated route and a port
\* left without a route
C16_Witness ==
    /\ lastOp = "reach"
    /\ Len(reached) >= 2
    /\ \E i, j \in DOMAIN routes :
           /\ i < j
           /\ {routes[i][1], routes[i][2]} = {routes[j][1], routes[j][2]}
    /\ \E p \in GraphPorts : \A i \in DOMAIN routes : p \notin {routes[i][1], routes[i][2]}

\* C17: the production phase of nextTurn leaves every supply port's stock of
\* each color at min(old stock + the port's production rate for the color,
\* the port's own cap in the table SUPPLY_STOCK_LIMITS).  Stock in half units.
C17_ProductionClampsToPortCap ==
    \A after \in {nextTurn(gameState)} :
        (gameState.status = "playing" /\ after.status # "gameover") =>
            \A p \in SupplyPortIds, c \in ColorSet :
                after.ports[p][c] =
                    Min(gameState.ports[p][c] + INITIAL_PORTS[p].supplyPerTurn[c],
                        2 * SUPPLY_STOCK_LIMITS(p))

\* C18: in the state and in every snapshot kept in the history the stored
\* demandLevel is the tier of the stored turn (1 up to turn 10, 2 up to turn
\* 20, 3 from turn 21 on), and a nextTurn at turn t that is not frozen takes
\* from every inventory the table value of the tier of t: the entries never
\* fall by more, and all together they fall by the table values less what the
\* arriving ships delivered (the gain in score).  When the turn ends in
\* gameover every entry is either untouched or lower by its table value.
C18_DemandFollowsTheTier ==
    \A gs \in {gameState} \cup {stateHistory[k] : k \in DOMAIN stateHistory} :
        LET tier == IF gs.turn <= 10 THEN 1 ELSE IF gs.turn <= 20 THEN 2 ELSE 3
            invs == gs.cityInventories
            due(i) == DEMAND_TABLES(tier, invs[i].portId)
            SumStock(v) == v[1].stock + v[2].stock + v[3].stock + v[4].stock
        IN /\ gs.demandLevel = tier
           /\ Len(invs) = 4
           /\ (gs.status = "playing" /\ ~gs.demandFrozenThisTurn) =>
                 \A after \in {nextTurn(gs)} :
                     IF after.status = "gameover"
                     THEN \A i \in DOMAIN invs :
                              after.cityInventories[i].stock
                                  \in {invs[i].stock, invs[i].stock - due(i)}
                     ELSE /\ \A i \in DOMAIN invs :
                                 after.cityInventories[i].stock >= invs[i].stock - due(i)
                          /\ SumStock(after.cityInventories)
                               = SumStock(invs) - (due(1) + due(2) + due(3) + due(4))
                                   + (after.score - gs.score)

\* the last turn of a game has been played at tier 3 with nothing delivered,
\* after turns played at tiers 1 and 2: each inventory is lower than in the
\* last snapshot by its tier-3 value
C18_Witness ==
    /\ lastOp = "nextTurn"
    /\ gameState.turn = MaxTurns + 1
    /\ gameState.demandLevel = 3
    /\ \E k \in DOMAIN stateHistory : stateHistory[k].demandLevel = 1
    /\ \E k \in DOMAIN stateHistory : stateHistory[k].demandLevel = 2
    /\ LET before == stateHistory[Len(stateHistory)]
       IN /\ before.turn = MaxTurns
          /\ \A i \in DOMAIN gameState.cityInventories :
                 gameState.cityInventories[i].stock
                     = before.cityInventories[i].stock
                         - DEMAND_TABLES(3, before.cityInventories[i].portId)

\* C19: the status is cleared exactly in the states whose turn is MaxTurns + 1,
\* and the turn is never above that.  A nextTurn of a game being played that
\* does not end in gameover raises the turn by exactly 1 and sets cleared if
\* and only if the raised turn is above MaxTurns; one that ends in gameover
\* leaves the turn alone; in a finished game nextTurn changes nothing.
C19_ClearedExactlyPastTheLastTurn ==
    /\ (gameState.status = "cleared") <=> (gameState.turn = MaxTurns + 1)
    /\ gameState.turn \in 1..(MaxTurns + 1)
    /\ \A after \in {nextTurn(gameState)} :
           IF gameState.status # "playing" THEN after = gameState
           ELSE IF after.status = "gameover" THEN after.turn = gameState.turn
           ELSE /\ after.turn = gameState.turn + 1
                /\ (after.status = "cleared") <=> (after.turn > MaxTurns)
                /\ after.status \in {"playing", "cleared"}

\* the last turn has been played: the game is cleared at turn MaxTurns + 1,
\* one above the turn of the last snapshot, which was still being played
C19_Witness ==
    /\ lastOp = "nextTurn"
    /\ gameState.status = "cleared"
    /\ gameState.turn = MaxTurns + 1
    /\ stateHistory # <<>>
    /\ stateHistory[Len(stateHistory)].status = "playing"
    /\ stateHistory[Len(stateHistory)].turn = MaxTurns

\* C20: a successful useDemandFreeze marks the item used and sets the frozen
\* flag at once, changing nothing else but the log; the flag is set only with
\* the item used and no cargo, sailing or item command changes it.  In a game
\* being played, the nextTurn of a state with the flag set takes nothing from
\* any inventory (an inventory changes only by what an arriving ship
\* delivers), does not end in gameover and leaves the flag false, and the
\* nextTurn after that one consumes the table values again.  (undoTurn and
\* resetGame replace the whole state, flag included: the turn that is skipped
\* is the next turn of the state the freeze produced.)
C20_FreezeSkipsOneDemandPhase ==
    LET SumStock(v) == v[1].stock + v[2].stock + v[3].stock + v[4].stock
        SumDue(turn) == getDemandForTurn(turn, "TKO") + getDemandForTurn(turn, "SAP")
                          + getDemandForTurn(turn, "MYZ") + getDemandForTurn(turn, "KYT")
        frozen == gameState.demandFrozenThisTurn
    IN
    /\ frozen => gameState.items["demandFreeze"].used
    /\ \A c \in ColorSet, q \in LoadQtys :
           /\ loadCargo(gameState, currentShip, c, q).demandFrozenThisTurn = frozen
           /\ returnCargo(gameState, currentShip, c).demandFrozenThisTurn = frozen
    /\ unloadCargo(gameState, currentShip).demandFrozenThisTurn = frozen
    /\ \A d \in InputPorts :
           /\ sail(gameState, currentShip, d).demandFrozenThisTurn = frozen
           /\ useSupplyBoost(gameState, d).demandFrozenThisTurn = frozen
           /\ useTeleport(gameState, currentShip, d).demandFrozenThisTurn = frozen
    /\ \A s1 \in {useDemandFreeze(gameState)} :
           /\ demandFreezeOutcome(gameState) = "ok" =>
                 s1 = [gameState EXCEPT !.items["demandFreeze"].used = TRUE,
                                        !.demandFrozenThisTurn = TRUE,
                                        !.logs = @ + 1]
           /\ (s1.demandFrozenThisTurn /\ s1.status = "playing") =>
                 \A s2 \in {nextTurn(s1)} :
                     /\ s2.status # "gameover"
                     /\ s2.turn = s1.turn + 1
                     /\ ~s2.demandFrozenThisTurn
                     /\ s2.items = s1.items
                     /\ \A k \in DOMAIN s1.cityInventories :
                            s2.cityInventories[k].stock >= s1.cityInventories[k].stock
                     /\ SumStock(s2.cityInventories)
                            = SumStock(s1.cityInventories) + (s2.score - s1.score)
                     /\ s2.status = "playing" =>
                            \A s3 \in {nextTurn(s2)} :
                                IF s3.status = "gameover"
                                THEN \E k \in DOMAIN s2.cityInventories :
                                         /\ s3.cityInventories[k].stock < 0
                                         /\ s3.cityInventories[k].stock
                                              = s2.cityInventories[k].stock
                                                  - getDemandForTurn(s2.turn,
                                                        s2.cityInventories[k].portId)
                                ELSE SumStock(s3.cityInventories)
                                         = SumStock(s2.cityInventories) - SumDue(s2.turn)
                                             + (s3.score - s2.score)

\* a frozen turn has been played in a state where the demand phase would have
\* ended the game: the inventories are those of the snapshot, the game goes
\* on, the flag is down and the item is used
C20_Witness ==
    /\ lastOp = "nextTurn"
    /\ stateHistory # <<>>
    /\ LET before == stateHistory[Len(stateHistory)]
       IN /\ before.status = "playing"
          /\ before.demandFrozenThisTurn
          /\ before.items["demandFreeze"].used
          /\ \E k \in DOMAIN before.cityInventories :
                 before.cityInventories[k].stock
                     < getDemandForTurn(before.turn, before.cityInventories[k].portId)
          /\ gameState.cityInventories = before.cityInventories
          /\ gameState.turn = before.turn + 1
    /\ gameState.status = "playing"
    /\ ~gameState.demandFrozenThisTurn
    /\ gameState.items["demandFreeze"].used

\* C21: useSupplyBoost with the item unused and a supply port sets every color
\* the port produces to the port's own cap in the table SUPPLY_STOCK_LIMITS,
\* leaves the other colors and the other ports alone and marks the item used;
\* with a demand port it changes nothing.  Stock in half units.
C21_BoostFillsToPortCap ==
    \A portId \in PortIds :
        \A after \in {useSupplyBoost(gameState, portId)} :
            IF gameState.items["supplyBoost"].used THEN after = gameState
            ELSE IF INITIAL_PORTS[portId].type # "supply" THEN after = gameState
            ELSE /\ \A c \in ColorSet :
                        after.ports[portId][c] =
                            IF INITIAL_PORTS[portId].supplyPerTurn[c] > 0
                            THEN 2 * SUPPLY_STOCK_LIMITS(portId)
                            ELSE gameState.ports[portId][c]
                 /\ \A p \in PortIds \ {portId} : after.ports[p] = gameState.ports[p]
                 /\ after.items["supplyBoost"].used

\* C22: useTeleport with the item unused leaves the ship docked at the
\* destination, whatever the routes and whether the ship was docked or at
\* sea, with no sailing field left and its cargo as before; the other ships,
\* the port stocks, the inventories, the score, the turn, the level and the
\* status are unchanged and the item is marked used.
C22_TeleportFrame ==
    \A s \in ShipIds, d \in PortIds :
        \A after \in {useTeleport(gameState, s, d)} :
            IF gameState.items["teleport"].used THEN after = gameState
            ELSE /\ after.ships[s] =
                        [DockedAt(d) EXCEPT !.cargo = gameState.ships[s].cargo]
                 /\ \A o \in ShipIds \ {s} : after.ships[o] = gameState.ships[o]
                 /\ after.ports = gameState.ports
                 /\ after.cityInventories = gameState.cityInventories
                 /\ after.score = gameState.score
                 /\ after.turn = gameState.turn
                 /\ after.demandLevel = gameState.demandLevel
                 /\ after.status = gameState.status
                 /\ after.items["teleport"].used

\* a loaded ship has been teleported from a supply port to a demand port no
\* route joins to a port producing its cargo: it lies docked there, cargo aboard
C22_Witness ==
    /\ lastOp = "teleport"
    /\ gameState.items["teleport"].used
    /\ LET ship == gameState.ships[currentShip]
       IN /\ ship.status = "docked"
          /\ ship.cargo # <<>>
          /\ INITIAL_PORTS[ship.currentPort].type = "demand"
          /\ \A p \in Elements(getDirectAdjacentPorts(ship.currentPort)) :
                 INITIAL_PORTS[p].type = "supply" =>
                     INITIAL_PORTS[p].supplyPerTurn[ship.cargo[1].color] = 0

\* C23: every snapshot on the history stack has, in every later state until
\* it is popped, the value it had when it was pushed, whatever commands are
\* applied in between (loads and returns write cargo entries in place).
C23_SnapshotsNeverChange ==
    /\ Len(pushed) = Len(stateHistory)
    /\ \A i \in DOMAIN stateHistory : Deref(heap, stateHistory[i]) = pushed[i]

\* after a turn was ended with cargo aboard, more of the same color has been
\* loaded: the entry the ship holds was written in place and now differs
\* from the snapshot's
C23_Witness ==
    /\ lastOp = "load"
    /\ stateHistory # <<>>
    /\ LET before == Deref(heap, stateHistory[Len(stateHistory)]).ships[currentShip]
           now == Deref(heap, gameState).ships[currentShip]
       IN /\ before.cargo # <<>>
          /\ Len(now.cargo) = Len(before.cargo)
          /\ now.cargo[1].color = before.cargo[1].color
          /\ now.cargo[1].quantity > before.cargo[1].quantity

C25_ResetRebuildsTheInitialState ==
    lastOp = "reset" =>
        /\ gameState.turn = 1
        /\ gameState.status = "playing"
        /\ gameState.demandLevel = 1
        /\ gameState.score = 0
        /\ \A p \in PortIds : gameState.ports[p] = INITIAL_PORTS[p].cargoStock
        /\ gameState.ships = INITIAL_SHIPS
        /\ gameState.cityInventories = INITIAL_CITY_INVENTORIES
        /\ \A i \in DOMAIN gameState.items : ~gameState.items[i].used
        /\ ~gameState.demandFrozenThisTurn
        /\ stateHistory = <<>>
        /\ ~undoTurnReturns(stateHistory)
        /\ undoTurn(gameState, stateHistory) =
               [gameState |-> gameState, stateHistory |-> stateHistory]

\* the game has just been reset
C25_Witness ==
    /\ lastOp = "reset"
    /\ gameState = createInitialGameState

\* C26: once the game is over, no operation other than resetGame leads to a
\* state whose status is playing.
C26_GameoverIsTerminal ==
    [][(gameState.status = "gameover" /\ lastOp' # "reset")
           => gameState'.status # "playing"]_vars

\* C27: in the table generateRandomSupplyPerTurn returns, every port's
\* production summed over the four colors is what it is in the fixed table.
C27_PortSumsKept ==
    pc = "done" =>
        \A p \in validPortIds :
            result[p].red + result[p].blue + result[p].yellow + result[p].green
              = INITIAL_PORTS[p].supplyPerTurn.red + INITIAL_PORTS[p].supplyPerTurn.blue
                  + INITIAL_PORTS[p].supplyPerTurn.yellow
                  + INITIAL_PORTS[p].supplyPerTurn.green

\* a table has been returned after two swaps, and a port the adjustments do
\* not touch produces other colors than in the fixed table
C27_Witness ==
    /\ pc = "done"
    /\ successfulSwaps = targetSwaps
    /\ \E p \in validPortIds \ {"SGP", "PNG", "TAW"} :
           result[p] # INITIAL_PORTS[p].supplyPerTurn

\* C28: in the table generateRandomSupplyPerTurn returns, every color's
\* production summed over the supply ports is what it is in the fixed table.
C28_ColorSumsKept ==
    pc = "done" =>
        \A c \in ColorSet :
            LET RECURSIVE Total(_, _)
                Total(table, k) ==
                    IF k > Len(SUPPLY_PORT_IDS) THEN 0
                    ELSE table[SUPPLY_PORT_IDS[k]][c] + Total(table, k + 1)
            IN Total(result, 1) = Total([p \in validPortIds |-> INITIAL_PORTS[p].supplyPerTurn], 1)

\* C29: from the entry of the swap loop to the table returned, every value
\* is 0, 0.5 or 1 and no port produces more than two colors.
C29_ValuesAndColorsBounded ==
    pc \in {"loop", "done"} =>
        \A p \in validPortIds :
            /\ \A c \in ColorSet : result[p][c] \in 0..2
            /\ countColors(result[p]) <= 2

\* a swap has been applied in the loop to a port that stands at the limits:
\* it produces two colors, one of them at 1.0
C29_Witness ==
    /\ pc = "loop"
    /\ successfulSwaps >= 1
    /\ \E p \in validPortIds \ {"SGP", "PNG", "TAW"} :
           /\ result[p] # INITIAL_PORTS[p].supplyPerTurn
           /\ countColors(result[p]) = 2
           /\ \E c \in ColorSet : result[p][c] = 2

\* C30: the cooldown suppresses a call only if it repeats the last accepted
\* call (same function, same ship, same color) within the cooldown window;
\* a call for another ship or color, a return after a load, and any call
\* made once the window has passed, goes through.
C30_CooldownSuppressesOnlyRepeats ==
    lastCall.suppressed =>
        /\ lastCall.previous.op = lastCall.call.op
        /\ lastCall.previous.shipId = lastCall.call.shipId
        /\ lastCall.previous.color = lastCall.call.color
        /\ lastCall.call.at - lastCall.previous.at < LoadCooldown

\* C31: for a ship about to arrive, the arrival step of nextTurn leaves the
\* ship's cargo, the city inventories and the score as unloadCargo leaves
\* them for the same ship docked at its destination: at a demand port only
\* the port's color goes ashore, its whole quantity to the inventory and to
\* the score; at a supply port the cargo and the inventories stay.
C31_ArrivalUnloadsLikeUnload ==
    \A s \in ShipIds :
        (gameState.ships[s].status = "sailing"
            /\ gameState.ships[s].remainingTurns = 1) =>
        \A ship \in {gameState.ships[s]} :
        \A arrived \in {ArriveShip([ships |-> gameState.ships,
                                    cityInventories |-> gameState.cityInventories,
                                    newLogs |-> 0, deliveredCargo |-> 0], s)} :
        \A unloaded \in {unloadCargo(
                [gameState EXCEPT !.ships[s] =
                    [DockedAt(ship.sailingTo) EXCEPT !.cargo = ship.cargo]], s)} :
            /\ arrived.ships[s].cargo = unloaded.ships[s].cargo
            /\ arrived.cityInventories = unloaded.cityInventories
            /\ gameState.score + arrived.deliveredCargo = unloaded.score
            /\ INITIAL_PORTS[ship.sailingTo].type = "supply" =>
                   /\ arrived.ships[s].cargo = ship.cargo
                   /\ arrived.cityInventories = gameState.cityInventories
                   /\ arrived.deliveredCargo = 0
            /\ (gameState.status = "playing"
                  /\ nextTurn(gameState).status # "gameover") =>
                   /\ nextTurn(gameState).ships[s].cargo = unloaded.ships[s].cargo
                   /\ nextTurn(gameState).score = unloaded.score

\* a ship has arrived at a demand port with the port's color and another
\* color aboard: the one was delivered and scored, the other is still aboard
C31_Witness ==
    /\ lastOp = "nextTurn"
    /\ stateHistory # <<>>
    /\ \E before \in {stateHistory[Len(stateHistory)]} :
           /\ before.ships[currentShip].status = "sailing"
           /\ INITIAL_PORTS[before.ships[currentShip].sailingTo].type = "demand"
           /\ Len(before.ships[currentShip].cargo) = 2
           /\ Len(gameState.ships[currentShip].cargo) = 1
           /\ gameState.ships[currentShip].status = "docked"
           /\ gameState.score > before.score

\* C32: every ship is either docked, with a current port and none of
\* sailingFrom, sailingTo, remainingTurns, totalTurns, or sailing, with no
\* current port, remainingTurns = totalTurns = 1 and a sailingTo that is
\* among the ports reachable from sailingFrom at the ship's speed.
C32_ShipIsDockedOrSailing ==
    \A s \in ShipIds :
        \A ship \in {gameState.ships[s]} :
            \/ /\ ship.status = "docked"
               /\ ship.currentPort \in PortIds
               /\ ship.sailingFrom = Undefined
               /\ ship.sailingTo = Undefined
               /\ ship.remainingTurns = UndefinedTurns
               /\ ship.totalTurns = UndefinedTurns
            \/ /\ ship.status = "sailing"
               /\ ship.currentPort = Undefined
               /\ ship.remainingTurns = 1
               /\ ship.totalTurns = 1
               /\ ship.sailingFrom \in PortIds
               /\ Includes(getReachablePorts(ship.sailingFrom, SHIP_CLASS[s].speed),
                           ship.sailingTo)

\* a ship that was moved by the teleport has put to sea from where it landed,
\* more than one route away from its destination
C32_Witness ==
    /\ lastOp = "sail"
    /\ gameState.items["teleport"].used
    /\ gameState.ships[currentShip].status = "sailing"
    /\ gameState.ships[currentShip].sailingFrom # INITIAL_SHIPS[currentShip].currentPort
    /\ ~Includes(getReachablePorts(gameState.ships[currentShip].sailingFrom, 1),
                 gameState.ships[currentShip].sailingTo)

\* C33: in a turn whose demand is not frozen, if some demand port holds less
\* than the turn takes from it, nextTurn ends the game and leaves every ship
\* as it was, whatever a ship sailing to that port carries: the ship is still
\* sailing and its cargo is aboard.
C33_DemandComesBeforeArrival ==
    (/\ gameState.status = "playing"
     /\ ~gameState.demandFrozenThisTurn
     /\ \E i \in DOMAIN gameState.cityInventories :
            gameState.cityInventories[i].stock
                < getDemandForTurn(gameState.turn, gameState.cityInventories[i].portId))
    => \A after \in {nextTurn(gameState)} :
           /\ after.status = "gameover"
           /\ after.ships = gameState.ships
           /\ after.turn = gameState.turn
           /\ after.score = gameState.score

\* the game has ended on a port that ran short while the ship was on its way
\* there with enough of the port's color to cover what was missing
C33_Witness ==
    /\ lastOp = "nextTurn"
    /\ gameState.status = "gameover"
    /\ gameState.ships[currentShip].status = "sailing"
    /\ \E i \in DOMAIN gameState.cityInventories :
           /\ gameState.cityInventories[i].stock < 0
           /\ gameState.cityInventories[i].portId = gameState.ships[currentShip].sailingTo
           /\ Aboard(gameState.ships[currentShip].cargo, gameState.cityInventories[i].color)
                  >= 0 - gameState.cityInventories[i].stock

\* C34: whatever is booked, the snapshot the end-of-turn handler pushes is
\* the state its turn is applied to, the booked sails included, so that
\* undoTurn brings the ships back as the turn found them.
C34_SnapshotIsTheStateTheTurnStartedFrom ==
    \A planned \in PlannedInputs :
        \A r \in {handleNextTurn(gameState, stateHistory, planned)} :
            /\ r.stateHistory[Len(r.stateHistory)] = r.appliedTo
            /\ undoTurn(r.gameState, r.stateHistory).gameState.ships = r.appliedTo.ships

\* C35: loadCargo and returnCargo leave the state they are applied to as it
\* was (it still shows the cargo it showed before), and applied a second
\* time to that same state they return the same result.
C35_LoadAndReturnLeaveTheirArgumentAlone ==
    \A c \in ColorSet :
        /\ \A r \in {heapLoadCargo(heap, gameState, currentShip, c, 1)} :
               /\ Deref(r.heap, gameState) = Deref(heap, gameState)
               /\ \A again \in {heapLoadCargo(r.heap, gameState, currentShip, c, 1)} :
                      Deref(again.heap, again.state) = Deref(r.heap, r.state)
        /\ \A r \in {heapReturnCargo(heap, gameState, currentShip, c)} :
               /\ Deref(r.heap, gameState) = Deref(heap, gameState)
               /\ \A again \in {heapReturnCargo(r.heap, gameState, currentShip, c)} :
                      Deref(again.heap, again.state) = Deref(r.heap, r.state)

\* C36: nextTurn called on a finished game (gameover or cleared) changes
\* neither the state nor the history, so that undoTurn after it does what it
\* would have done without the call.
C36_NextTurnOnFinishedGameChangesNothing ==
    gameState.status \in {"gameover", "cleared"} =>
        \A r \in {nextTurnCall(gameState, stateHistory)} :
            /\ r.gameState = gameState
            /\ r.stateHistory = stateHistory
            /\ undoTurn(r.gameState, r.stateHistory) = undoTurn(gameState, stateHistory)

\* C37: on a finished game (gameover or cleared) loadCargo, returnCargo,
\* unloadCargo, sail, useSupplyBoost, useDemandFreeze and useTeleport return
\* the state they are given.
C37_FinishedGameIsFrozen ==
    gameState.status \in {"gameover", "cleared"} =>
        /\ \A s \in ShipIds, c \in ColorSet :
               /\ \A q \in LoadQtys : loadCargo(gameState, s, c, q) = gameState
               /\ returnCargo(gameState, s, c) = gameState
        /\ \A s \in ShipIds :
               /\ unloadCargo(gameState, s) = gameState
               /\ \A d \in InputPorts :
                      /\ sail(gameState, s, d) = gameState
                      /\ useTeleport(gameState, s, d) = gameState
        /\ \A p \in InputPorts : useSupplyBoost(gameState, p) = gameState
        /\ useDemandFreeze(gameState) = gameState

\* C38: every cargo entry aboard a ship has a quantity of at least 1 and no
\* two entries of a ship have the same color; and loadCargo with a quantity
\* of 0 or less returns the state it is given.
C38_CargoEntriesArePositiveAndDistinct ==
    /\ \A s \in ShipIds :
           \A cargo \in {gameState.ships[s].cargo} :
               /\ \A i \in DOMAIN cargo : cargo[i].quantity \in Nat \ {0}
               /\ \A i, j \in DOMAIN cargo : cargo[i].color = cargo[j].color => i = j
    /\ \A s \in ShipIds, c \in ColorSet, q \in {-1, 0} :
           loadCargo(gameState, s, c, q) = gameState

\* C39: a step changes the score only if it is an unloadCargo or a nextTurn,
\* and then by exactly what the step delivered to the city inventories (the
\* rise of their stock, the turn's demand set aside); loadCargo, returnCargo,
\* sail and the items leave the score alone, and no step other than undoTurn
\* and resetGame lowers it.
C39_ScoreCountsDeliveries ==
    [][LET RECURSIVE Rise(_)
           Rise(i) ==
               IF i > Len(gameState.cityInventories) THEN 0
               ELSE gameState'.cityInventories[i].stock
                      - gameState.cityInventories[i].stock + Rise(i + 1)
           RECURSIVE Taken(_)
           Taken(i) ==
               IF i > Len(gameState.cityInventories) THEN 0
               ELSE getDemandForTurn(gameState.turn,
                                     gameState.cityInventories[i].portId) + Taken(i + 1)
       IN /\ lastOp' \in {"load", "return", "sail", "supplyBoost", "demandFreeze",
                          "teleport"} => gameState'.score = gameState.score
          /\ lastOp' = "unload" =>
                 /\ gameState'.score - gameState.score = Rise(1)
                 /\ Rise(1) > 0
          /\ lastOp' = "nextTurn" =>
                 IF gameState.status # "playing" \/ gameState'.status = "gameover"
                 THEN gameState'.score = gameState.score
                 ELSE gameState'.score - gameState.score
                        = Rise(1) + (IF gameState.demandFrozenThisTurn THEN 0 ELSE Taken(1))
          /\ lastOp' \notin {"undo", "reset"} => gameState'.score >= gameState.score
      ]_vars

\* a turn has ended with a delivery on arrival that raised a score already
\* above zero
C39_Witness ==
    /\ lastOp = "nextTurn"
    /\ stateHistory # <<>>
    /\ stateHistory[Len(stateHistory)].score > 0
    /\ gameState.score > stateHistory[Len(stateHistory)].score
    /\ Len(stateHistory) > start.depth

====
